---------------------------- MODULE Spec2Model ----------------------------
(***************************************************************************)
(* Wright-Fisher simulator (evolutionary_simulator/core.py) as a state     *)
(* machine.  A process holds up to two WrightFisherSim objects and the     *)
(* module-level generator of Python's `random`, which every simulator      *)
(* shares.  Times of the demographic graph and of the new-allele schedule  *)
(* are rationals with denominator TimeDen; rates, proportions and          *)
(* frequencies are pairs <<numerator, denominator>>.                       *)
(***************************************************************************)
EXTENDS Integers, Sequences, FiniteSets, TLC

VARIABLES
    rng,                  \* state of the shared generator of module random
    pc,                   \* per simulator: position of the object / of run()
    err,                  \* per simulator: exception that ended __init__ or run()
    cfg,                  \* per simulator: the arguments given to __init__
    alleles,              \* self.alleles (active alleles, a list)
    alleles_by_time,      \* self.alleles_by_time (generation -> list of entries)
    fitness,              \* self.fitness (allele -> fitness)
    initial_freqs,        \* self.initial_freqs (list of <<allele, weight>>, dict order)
    current_populations,  \* self.current_populations (name -> list of alleles)
    pop_keys,             \* insertion order of the keys of current_populations
    history,              \* self.history (name -> list of records)
    start_generation,     \* run(): start_generation
    t,                    \* run(): loop variable
    zero_freqs,           \* run(): zero_freqs of the current generation
    born,                 \* per simulator: calls of _initialize_population, by name
    phases,               \* per simulator: phases executed in the current generation
    moved,                \* per simulator: intervals / pulses applied by the last
                          \* migration phase, in order
    runs                  \* per simulator: calls of run() so far

vars == <<rng, pc, err, cfg, alleles, alleles_by_time, fitness, initial_freqs,
          current_populations, pop_keys, history, start_generation, t,
          zero_freqs, born, phases, moved, runs>>

-----------------------------------------------------------------------------
(* Bounds of the model *)

\* the population size of scenario 3 in full runs
Scenario3Small == 4

\* run() is called at most MaxRuns times on a simulator
MaxRuns == 2

\* seeds 0..MaxSeed are given to the constructor
MaxSeed == 2
\* the generator of a fresh process starts in one of the states 0..MaxEntropy
MaxEntropy == 1

(* Program constants *)

\* start_generation when no deme has a finite start time
DefaultHorizon == 100
\* generations added to the oldest finite start time
HorizonBuffer == 50

\* math.inf, as a time
Inf == -1
\* denominator of every time of the model (half generations)
TimeDen == 2
\* seed=None
NoSeed == -1
SimIds == {1, 2}

-----------------------------------------------------------------------------
(* Sequences and small arithmetic *)

IsInf(x) == x = Inf

Max(a, b) == IF a >= b THEN a ELSE b

\* int(x) for a time x given in units of 1/TimeDen: truncation toward zero
Trunc(x) == IF x >= 0 THEN x \div TimeDen ELSE -((-x) \div TimeDen)

\* int(n * r) for a count n >= 0 and a rational r = <<num, den>>, den > 0
IntMul(n, r) ==
    IF n * r[1] >= 0 THEN (n * r[1]) \div r[2] ELSE -((-(n * r[1])) \div r[2])

RECURSIVE Gcd(_, _)
Gcd(a, b) == IF b = 0 THEN a ELSE Gcd(b, a % b)

\* the float count / n, as a reduced fraction
Frac(count, n) ==
    IF count = 0 THEN <<0, 1>> ELSE <<count \div Gcd(count, n), n \div Gcd(count, n)>>

Range(s) == {s[i] : i \in 1..Len(s)}

InSeq(x, s) == \E i \in 1..Len(s) : s[i] = x

RECURSIVE SumSeq(_)
SumSeq(s) == IF s = <<>> THEN 0 ELSE Head(s) + SumSeq(Tail(s))

\* number of positions of s holding x (Counter(s).get(x, 0))
Count(x, s) == Cardinality({i \in 1..Len(s) : s[i] = x})

Replace(s, i, x) == [s EXCEPT ![i] = x]

Repeat(x, n) == [i \in 1..n |-> x]

-----------------------------------------------------------------------------
(* The generator of module random.  Its state is a residue; a draw steps   *)
(* the state and returns it, read as the fraction state / RngMod in [0,1). *)

RngMod == 65536

RngNext(s) == (25173 * s + 13849) % RngMod

\* random.seed(seed)
SeedState(seed) == (7 * seed + 2) % RngMod

\* random.random() < r, for the draw u (a state) and r = <<num, den>>
Below(u, r) == u * r[2] < r[1] * RngMod

\* int(random.random() * n): the index (from 0) picked among n
Pick(u, n) == (u * n) \div RngMod


-----------------------------------------------------------------------------
(* The demographic graph, as demes.load returns it: demes in file order     *)
(* (ancestors before descendants), each with its epochs, oldest first, and  *)
(* the migrations and pulses.  Epochs have constant size.                   *)

Epoch(end_time, start_size) == [end_time |-> end_time, start_size |-> start_size]

Deme(name, start_time, epochs, ancestors, proportions) ==
    [name |-> name, start_time |-> start_time, epochs |-> epochs,
     ancestors |-> ancestors, proportions |-> proportions]

Migration(source, dest, rate, start_time, end_time) ==
    [source |-> source, dest |-> dest, rate |-> rate,
     start_time |-> start_time, end_time |-> end_time]

Pulse(source, dest, proportion, time) ==
    [source |-> source, dest |-> dest, proportion |-> proportion, time |-> time]

\* one root deme of two individuals
GraphSingle ==
    [demes |-> << Deme("A", Inf, << Epoch(0, 2) >>, <<>>, <<>>) >>,
     migrations |-> <<>>, pulses |-> <<>>]

\* one root deme of twenty individuals (the drift scenario)
GraphScenario1 ==
    [demes |-> << Deme("A", Inf, << Epoch(0, 20) >>, <<>>, <<>>) >>,
     migrations |-> <<>>, pulses |-> <<>>]

\* A splits off B at time 2.5; A shrinks to one individual at time 1, B
\* starts with two individuals and has three from time 2 on, migrants move
\* from A to B while both exist, and a pulse goes from B to A at time 0.5
GraphSplit ==
    [demes |-> << Deme("A", Inf, << Epoch(2, 2), Epoch(0, 1) >>, <<>>, <<>>),
                  Deme("B", 5, << Epoch(4, 2), Epoch(0, 3) >>, << "A" >>,
                       << <<1, 1>> >>) >>,
     migrations |-> << Migration("A", "B", <<1, 2>>, 5, 0) >>,
     pulses |-> << Pulse("B", "A", <<1, 2>>, 1) >>]

\* A and B end at time 2 and merge into C; until then migrants move both
\* ways; pulses from B to A at time 60 and from A to B at time 5.5
GraphMerge ==
    [demes |-> << Deme("A", Inf, << Epoch(4, 2) >>, <<>>, <<>>),
                  Deme("B", Inf, << Epoch(4, 2) >>, <<>>, <<>>),
                  Deme("C", 4, << Epoch(0, 3) >>, << "A", "B" >>,
                       << <<1, 2>>, <<1, 2>> >>) >>,
     migrations |-> << Migration("B", "A", <<1, 4>>, Inf, 4),
                       Migration("A", "B", <<1, 2>>, Inf, 4) >>,
     pulses |-> << Pulse("B", "A", <<1, 2>>, 120), Pulse("A", "B", <<1, 2>>, 11) >>]

\* two root demes of n individuals each and a pulse of half of B from A at
\* time 10 (the pulse scenario)
GraphScenario3(n) ==
    [demes |-> << Deme("A", Inf, << Epoch(0, n) >>, <<>>, <<>>),
                  Deme("B", Inf, << Epoch(0, n) >>, <<>>, <<>>) >>,
     migrations |-> <<>>,
     pulses |-> << Pulse("A", "B", <<1, 2>>, 20) >>]

Graphs == {GraphSingle, GraphScenario1, GraphSplit, GraphMerge}

DemeNames(graph) == {graph.demes[k].name : k \in 1..Len(graph.demes)}

\* self.graph[pop_name]
DemeOf(graph, name) ==
    graph.demes[CHOOSE k \in 1..Len(graph.demes) : graph.demes[k].name = name]

\* start time of the k-th epoch of a deme
EpochStart(deme, k) ==
    IF k = 1 THEN deme.start_time ELSE deme.epochs[k - 1].end_time

\* epoch.start_time >= max(0, gen - 1e-5) >= epoch.end_time, for times that
\* are multiples of 1/TimeDen
QueryInEpoch(gen, start_time, end_time) ==
    IF gen = 0
    THEN end_time = 0
    ELSE /\ IsInf(start_time) \/ start_time >= gen * TimeDen
         /\ gen * TimeDen > end_time

\* SizeAt reading the size the deme was created with, whatever the time
SizeAtBirth(deme, gen) == deme.epochs[1].start_size

\* int(self.graph[pop_name].size_at(max(0, gen - 1e-5))); size_at gives 0
\* when the deme does not exist at the time
SizeAt(deme, gen) ==
    LET hit == {k \in 1..Len(deme.epochs) :
                    QueryInEpoch(gen, EpochStart(deme, k), deme.epochs[k].end_time)}
    IN  IF hit = {} THEN 0
        ELSE deme.epochs[CHOOSE k \in hit : \A j \in hit : k <= j].start_size

-----------------------------------------------------------------------------
(* The arguments of WrightFisherSim(...) *)

\* an entry of the config file's new_alleles list; `fields` are its keys
Entry(fields, allele, population, start_time, initial_frequency) ==
    [fields |-> fields, allele |-> allele, population |-> population,
     start_time |-> start_time, initial_frequency |-> initial_frequency]

AllFields == {"allele", "population", "start_time", "initial_frequency"}

\* required_fields of __init__
RequiredFields == {"allele", "population", "start_time"}

\* entry.get("initial_frequency", 0.05)
EntryFrequency(entry) ==
    IF "initial_frequency" \in entry.fields THEN entry.initial_frequency ELSE <<1, 20>>

\* config_file_path=None
NoConfig == [present |-> FALSE, new_alleles |-> <<>>]

ConfigFile(entries) == [present |-> TRUE, new_alleles |-> entries]

\* initial_allele_frequency: a scalar p, a dict (items with weights
\* item[2] / den), or None
ScalarFreq(p) == [kind |-> "scalar", p |-> p, items |-> <<>>, den |-> 1]

DictFreq(items, den) == [kind |-> "dict", p |-> <<0, 1>>, items |-> items, den |-> den]

NoneFreq == [kind |-> "none", p |-> <<0, 1>>, items |-> <<>>, den |-> 1]

Args(graph, als, freq, mu, wild, seed, sel, config) ==
    [graph |-> graph, alleles |-> als, initial_allele_frequency |-> freq,
     mutation_rate |-> mu, wild_type |-> wild, seed |-> seed,
     selection_coefficients |-> sel, config |-> config]

\* d.get(key, default) for a dict given as a list of <<key, value>>
Get(d, key, default) ==
    IF \E k \in 1..Len(d) : d[k][1] = key
    THEN d[CHOOSE k \in 1..Len(d) : d[k][1] = key][2]
    ELSE default

-----------------------------------------------------------------------------
(* __init__ *)

\* all_potential_alleles
AllPotential(c) == IF c.alleles = <<>> THEN <<0, 1>> ELSE c.alleles

\* EntryValid without the check of the allele against the alleles list
EntryValidFieldsOnly(entry, c) == RequiredFields \subseteq entry.fields

\* the two checks made on an entry of new_alleles
EntryValid(entry, c) ==
    /\ RequiredFields \subseteq entry.fields
    /\ InSeq(entry.allele, AllPotential(c))

\* whether the loop over new_alleles raises ValueError
ScheduleRejected(c) ==
    /\ c.config.present
    /\ \E k \in 1..Len(c.config.new_alleles) : ~EntryValid(c.config.new_alleles[k], c)

\* t = int(entry["start_time"])
EntryGeneration(entry) == Trunc(entry.start_time)

\* self.alleles_by_time after the loop: generation -> entries, in file order
AllelesByTime(c) ==
    LET entries == c.config.new_alleles
        gens == {EntryGeneration(entries[k]) : k \in 1..Len(entries)}
    IN  [g \in gens |->
            LET AtG(e) == EntryGeneration(e) = g IN SelectSeq(entries, AtG)]

\* future_alleles_set
FutureAlleles(c) ==
    {c.config.new_alleles[k].allele : k \in 1..Len(c.config.new_alleles)}

\* self.alleles at the end of __init__
ActiveAlleles(c) ==
    LET NotFuture(a) == a \notin FutureAlleles(c)
        active == SelectSeq(AllPotential(c), NotFuture)
    IN  IF active # <<>> THEN active
        ELSE IF InSeq(c.wild_type, AllPotential(c)) THEN << c.wild_type >>
        ELSE << 0 >>

\* self.fitness: max(0.0, 1.0 + s) for every potential allele
FitnessMap(c) ==
    [a \in Range(AllPotential(c)) |-> Max(0, 1 + Get(c.selection_coefficients, a, 0))]

\* self.initial_freqs before the sum is validated: keys in dict order, the
\* weights w[k] / den
RawInitialFreqs(c) ==
    LET active == ActiveAlleles(c)
        f == c.initial_allele_frequency
        uniform == [keys |-> active, w |-> Repeat(1, Len(active)), den |-> Len(active)]
    IN  CASE f.kind = "dict" ->
                LET Kept(item) == InSeq(item[1], active)
                    items == SelectSeq(f.items, Kept)
                IN  [keys |-> [k \in 1..Len(items) |-> items[k][1]],
                     w |-> [k \in 1..Len(items) |-> items[k][2]],
                     den |-> f.den]
          [] f.kind = "scalar" /\ Len(active) = 2 ->
                [keys |-> active, w |-> << f.p[1], f.p[2] - f.p[1] >>, den |-> f.p[2]]
          [] f.kind = "scalar" /\ Len(active) = 1 ->
                [keys |-> active, w |-> << 1 >>, den |-> 1]
          [] OTHER -> uniform

\* whether `1.0 / total` divides by zero
FreqTotalZero(c) == SumSeq(RawInitialFreqs(c).w) = 0

\* self.initial_freqs after "Validate sums": rescaled to total 1
InitialFreqs(c) ==
    LET raw == RawInitialFreqs(c)
    IN  [raw EXCEPT !.den = SumSeq(raw.w)]

\* the exception __init__ ends with, "" when it returns
InitError(c) ==
    IF ScheduleRejected(c) THEN "ValueError"
    ELSE IF FreqTotalZero(c) THEN "ZeroDivisionError"
    ELSE ""

-----------------------------------------------------------------------------
(* Functions of module random, on the generator state r.  Each returns the *)
(* value and the state after its draws.                                     *)

\* the state after n draws: after the first half of them, then the rest
RECURSIVE Advance(_, _)
Advance(r, n) ==
    IF n = 0 THEN r
    ELSE IF n = 1 THEN RngNext(r)
    ELSE LET half == Advance(r, n \div 2)
         IN  IF half \in 0..(RngMod - 1) THEN Advance(half, n - (n \div 2)) ELSE half

\* the next n draws, in order: the first half of them, then the rest
RECURSIVE Draws(_, _)
Draws(r, n) ==
    IF n = 0 THEN <<>>
    ELSE IF n = 1 THEN << RngNext(r) >>
    ELSE LET first == Draws(r, n \div 2)
         IN  first \o Draws(first[Len(first)], n - (n \div 2))

\* [random.choice(seq) for _ in range(n)], for a non-empty seq
ChoiceN(seq, n, r) ==
    LET u == Draws(r, n)
    IN  [out |-> [k \in 1..n |-> seq[Pick(u[k], Len(seq)) + 1]],
         rng |-> Advance(r, n)]

\* bisect(cum_weights, u * total, 0, n - 1): the index (from 0) of the item
\* at which the cumulative weight first exceeds u * total
Bisect(weights, u) ==
    LET n == Len(weights)
        total == SumSeq(weights)
        Cum(k) == SumSeq(SubSeq(weights, 1, k))
    IN  Cardinality({k \in 1..(n - 1) : Cum(k) * RngMod <= u * total})

\* random.choices(population, weights, k=n), for a positive total weight
Choices(population, weights, n, r) ==
    LET u == Draws(r, n)
    IN  [out |-> [k \in 1..n |-> population[Bisect(weights, u[k]) + 1]],
         rng |-> Advance(r, n)]

\* random.sample(range(n), k), k <= n: k rounds of picking from the pool
\* of the positions not yet taken; positions are counted from 1 here
RECURSIVE SampleRec(_, _, _, _)
SampleRec(pool, k, r, acc) ==
    IF k = 0 THEN [out |-> acc, rng |-> r]
    ELSE LET u == RngNext(r)
             m == Len(pool)
             j == Pick(u, m) + 1
         IN  SampleRec([q \in 1..(m - 1) |-> IF q = j THEN pool[m] ELSE pool[q]],
                       k - 1, u, Append(acc, pool[j]))

Sample(n, k, r) == SampleRec([i \in 1..n |-> i], k, r, <<>>)

\* random.shuffle(x): for i = len-1 down to 1, swap x[i] with x[randbelow(i+1)]
RECURSIVE ShuffleRec(_, _, _)
ShuffleRec(x, i, r) ==
    IF i < 2 THEN [out |-> x, rng |-> r]
    ELSE LET u == RngNext(r)
             j == Pick(u, i) + 1
         IN  ShuffleRec([x EXCEPT ![i] = x[j], ![j] = x[i]], i - 1, u)

Shuffle(x, r) == ShuffleRec(x, Len(x), r)

\* for m in migrants: dest[random.randint(0, len(dest) - 1)] = m; a position
\* keeps the last migrant written over it
Overwrite(dest, migrants, r) ==
    LET n == Len(migrants)
        u == Draws(r, n)
        at == [k \in 1..n |-> Pick(u[k], Len(dest)) + 1]
    IN  [out |-> [q \in 1..Len(dest) |->
                    LET hits == {k \in 1..n : at[k] = q}
                    IN  IF hits = {} THEN dest[q]
                        ELSE migrants[CHOOSE k \in hits : \A j \in hits : j <= k]],
         rng |-> Advance(r, n)]

-----------------------------------------------------------------------------
(* _initialize_population *)

\* the loop over zip(ancestors, proportions): the individuals taken from
\* each ancestor that is in the store
RECURSIVE FromAncestors(_, _, _, _, _, _, _)
FromAncestors(store, wild, size, ancestors, proportions, r, acc) ==
    IF ancestors = <<>> \/ proportions = <<>> THEN [out |-> acc, rng |-> r]
    ELSE LET anc == Head(ancestors)
             count == IntMul(size, Head(proportions))
             got == IF anc \notin DOMAIN store THEN [out |-> <<>>, rng |-> r]
                    ELSE IF store[anc] = <<>> THEN [out |-> Repeat(wild, count), rng |-> r]
                    ELSE ChoiceN(store[anc], count, r)
         IN  FromAncestors(store, wild, size, Tail(ancestors), Tail(proportions),
                           got.rng, acc \o got.out)

\* InitializePopulation creating an empty population when every ancestor in
\* the store is empty
InitializePopulationExtinct(store, active, wild, freqs, size, ancestors, proportions, r) ==
    IF ancestors # <<>>
    THEN IF \A k \in 1..Len(ancestors) :
                ancestors[k] \in DOMAIN store /\ store[ancestors[k]] = <<>>
         THEN [out |-> <<>>, rng |-> r, err |-> ""]
         ELSE LET props == IF proportions = <<>>
                           THEN Repeat(<<1, Len(ancestors)>>, Len(ancestors))
                           ELSE proportions
                  taken == FromAncestors(store, wild, size, ancestors, props, r, <<>>)
                  short == size - Len(taken.out)
                  fill == IF short <= 0 THEN [out |-> <<>>, rng |-> taken.rng]
                          ELSE IF store[ancestors[1]] # <<>>
                          THEN ChoiceN(store[ancestors[1]], short, taken.rng)
                          ELSE ChoiceN(active, short, taken.rng)
                  mixed == Shuffle(taken.out \o fill.out, fill.rng)
              IN  [out |-> mixed.out, rng |-> mixed.rng, err |-> ""]
    ELSE LET drawn == Choices(freqs.keys, freqs.w, size, r)
         IN  [out |-> drawn.out, rng |-> drawn.rng, err |-> ""]

\* InitializePopulation drawing the rounding shortfall from the last ancestor
InitializePopulationFillsFromLast(store, active, wild, freqs, size, ancestors, proportions, r) ==
    IF ancestors # <<>>
    THEN LET props == IF proportions = <<>>
                      THEN Repeat(<<1, Len(ancestors)>>, Len(ancestors))
                      ELSE proportions
             taken == FromAncestors(store, wild, size, ancestors, props, r, <<>>)
             short == size - Len(taken.out)
             last == ancestors[Len(ancestors)]
         IN  IF short > 0 /\ last \notin DOMAIN store
             THEN [out |-> taken.out, rng |-> taken.rng, err |-> "KeyError"]
             ELSE LET fill == IF short <= 0 THEN [out |-> <<>>, rng |-> taken.rng]
                              ELSE IF store[last] # <<>>
                              THEN ChoiceN(store[last], short, taken.rng)
                              ELSE ChoiceN(active, short, taken.rng)
                      mixed == Shuffle(taken.out \o fill.out, fill.rng)
                  IN  [out |-> mixed.out, rng |-> mixed.rng, err |-> ""]
    ELSE LET drawn == Choices(freqs.keys, freqs.w, size, r)
         IN  [out |-> drawn.out, rng |-> drawn.rng, err |-> ""]

\* the members of a new population, the generator state after creating it,
\* and the exception raised on the way ("" if none)
InitializePopulation(store, active, wild, freqs, size, ancestors, proportions, r) ==
    IF ancestors # <<>>
    THEN LET props == IF proportions = <<>>
                      THEN Repeat(<<1, Len(ancestors)>>, Len(ancestors))
                      ELSE proportions
             taken == FromAncestors(store, wild, size, ancestors, props, r, <<>>)
             short == size - Len(taken.out)
         IN  IF short > 0 /\ ancestors[1] \notin DOMAIN store
             THEN [out |-> taken.out, rng |-> taken.rng, err |-> "KeyError"]
             ELSE LET fill == IF short <= 0 THEN [out |-> <<>>, rng |-> taken.rng]
                              ELSE IF store[ancestors[1]] # <<>>
                              THEN ChoiceN(store[ancestors[1]], short, taken.rng)
                              ELSE ChoiceN(active, short, taken.rng)
                      mixed == Shuffle(taken.out \o fill.out, fill.rng)
                  IN  [out |-> mixed.out, rng |-> mixed.rng, err |-> ""]
    ELSE LET drawn == Choices(freqs.keys, freqs.w, size, r)
         IN  [out |-> drawn.out, rng |-> drawn.rng, err |-> ""]

-----------------------------------------------------------------------------
(* _handle_new_alleles *)

\* N = max(1, int(len(pop_alleles) * freq))
IntroducedCount(n, freq) == Max(1, IntMul(n, freq))

RECURSIVE WriteAt(_, _, _)
WriteAt(pop, indices, allele) ==
    IF indices = <<>> THEN pop
    ELSE WriteAt(Replace(pop, Head(indices), allele), Tail(indices), allele)

\* the loop over self.alleles_by_time[generation]
RECURSIVE NewAllelesRec(_, _, _, _)
NewAllelesRec(entries, store, active, r) ==
    IF entries = <<>> THEN [store |-> store, alleles |-> active, rng |-> r, err |-> ""]
    ELSE LET entry == Head(entries)
             pop == entry.population
         IN  IF pop \notin DOMAIN store \/ store[pop] = <<>>
             THEN NewAllelesRec(Tail(entries), store, active, r)
             ELSE LET act == IF InSeq(entry.allele, active) THEN active
                             ELSE Append(active, entry.allele)
                      n == Len(store[pop])
                      N == IntroducedCount(n, EntryFrequency(entry))
                  IN  IF N > n
                      THEN [store |-> store, alleles |-> act, rng |-> r,
                            err |-> "ValueError"]
                      ELSE LET picked == Sample(n, N, r)
                           IN  NewAllelesRec(Tail(entries),
                                   [store EXCEPT ![pop] =
                                       WriteAt(store[pop], picked.out, entry.allele)],
                                   act, picked.rng)

HandleNewAlleles(by_time, gen, store, active, r) ==
    IF gen \notin DOMAIN by_time
    THEN [store |-> store, alleles |-> active, rng |-> r, err |-> ""]
    ELSE NewAllelesRec(by_time[gen], store, active, r)

-----------------------------------------------------------------------------
(* _handle_mutations *)

\* mutant_alleles
MutantAlleles(active, wild) ==
    LET NotWild(a) == a # wild IN SelectSeq(active, NotWild)

\* MutateRec in which every mutating position takes a random mutant allele
RECURSIVE MutateRecAlwaysForward(_, _, _, _, _, _)
MutateRecAlwaysForward(pop, i, mutants, wild, rate, r) ==
    IF i > Len(pop) THEN [out |-> pop, rng |-> r]
    ELSE LET u == RngNext(r)
         IN  IF ~Below(u, rate)
             THEN MutateRecAlwaysForward(pop, i + 1, mutants, wild, rate, u)
             ELSE LET v == RngNext(u)
                  IN  MutateRecAlwaysForward(
                          Replace(pop, i, mutants[Pick(v, Len(mutants)) + 1]),
                          i + 1, mutants, wild, rate, v)

\* the loop over the positions i..len of the population
RECURSIVE MutateRec(_, _, _, _, _, _)
MutateRec(pop, i, mutants, wild, rate, r) ==
    IF i > Len(pop) THEN [out |-> pop, rng |-> r]
    ELSE LET u == RngNext(r)
         IN  IF ~Below(u, rate) THEN MutateRec(pop, i + 1, mutants, wild, rate, u)
             ELSE IF pop[i] = wild
             THEN LET v == RngNext(u)
                  IN  MutateRec(Replace(pop, i, mutants[Pick(v, Len(mutants)) + 1]),
                                i + 1, mutants, wild, rate, v)
             ELSE MutateRec(Replace(pop, i, wild), i + 1, mutants, wild, rate, u)

\* HandleMutations without the early return on a rate <= 0
HandleMutationsAlwaysDraws(pop, active, wild, rate, r) ==
    IF MutantAlleles(active, wild) = <<>>
    THEN [out |-> pop, rng |-> r]
    ELSE MutateRec(pop, 1, MutantAlleles(active, wild), wild, rate, r)

HandleMutations(pop, active, wild, rate, r) ==
    IF rate[1] <= 0 \/ MutantAlleles(active, wild) = <<>>
    THEN [out |-> pop, rng |-> r]
    ELSE MutateRec(pop, 1, MutantAlleles(active, wild), wild, rate, r)

-----------------------------------------------------------------------------
(* The evolution loop of run(): drift / selection, then mutation *)

\* weights = [self.fitness[allele] for allele in old_alleles]
Weights(fit, old_alleles) == [k \in 1..Len(old_alleles) |-> fit[old_alleles[k]]]

\* EvolveOne leaving a population of size <= 0 or of total weight 0 as it is
EvolveOneKeepsExtinct(deme, gen, old_alleles, fit, active, wild, rate, r) ==
    LET current_size == SizeAt(deme, gen)
    IN  IF current_size <= 0 THEN [out |-> old_alleles, rng |-> r, err |-> ""]
        ELSE IF old_alleles = <<>> THEN [out |-> <<>>, rng |-> r, err |-> ""]
        ELSE IF Range(old_alleles) \ DOMAIN fit # {}
        THEN [out |-> old_alleles, rng |-> r, err |-> "KeyError"]
        ELSE IF SumSeq(Weights(fit, old_alleles)) = 0
        THEN [out |-> old_alleles, rng |-> r, err |-> ""]
        ELSE LET new_alleles == Choices(old_alleles, Weights(fit, old_alleles),
                                        current_size, r)
                 mutated == HandleMutations(new_alleles.out, active, wild, rate,
                                            new_alleles.rng)
             IN  [out |-> mutated.out, rng |-> mutated.rng, err |-> ""]

\* EvolveOne refounding an empty population with the wild type
EvolveOneReseeds(deme, gen, old_alleles, fit, active, wild, rate, r) ==
    LET current_size == SizeAt(deme, gen)
    IN  IF current_size <= 0 THEN [out |-> <<>>, rng |-> r, err |-> ""]
        ELSE IF old_alleles = <<>>
        THEN [out |-> Repeat(wild, current_size), rng |-> r, err |-> ""]
        ELSE IF Range(old_alleles) \ DOMAIN fit # {}
        THEN [out |-> old_alleles, rng |-> r, err |-> "KeyError"]
        ELSE IF SumSeq(Weights(fit, old_alleles)) = 0
        THEN [out |-> <<>>, rng |-> r, err |-> ""]
        ELSE LET new_alleles == Choices(old_alleles, Weights(fit, old_alleles),
                                        current_size, r)
                 mutated == HandleMutations(new_alleles.out, active, wild, rate,
                                            new_alleles.rng)
             IN  [out |-> mutated.out, rng |-> mutated.rng, err |-> ""]

\* one population of the evolution loop
EvolveOne(deme, gen, old_alleles, fit, active, wild, rate, r) ==
    LET current_size == SizeAt(deme, gen)
    IN  IF current_size <= 0 THEN [out |-> <<>>, rng |-> r, err |-> ""]
        ELSE IF old_alleles = <<>> THEN [out |-> <<>>, rng |-> r, err |-> ""]
        ELSE IF Range(old_alleles) \ DOMAIN fit # {}
        THEN [out |-> old_alleles, rng |-> r, err |-> "KeyError"]
        ELSE IF SumSeq(Weights(fit, old_alleles)) = 0
        THEN [out |-> <<>>, rng |-> r, err |-> ""]
        ELSE LET new_alleles == Choices(old_alleles, Weights(fit, old_alleles),
                                        current_size, r)
                 mutated == HandleMutations(new_alleles.out, active, wild, rate,
                                            new_alleles.rng)
             IN  [out |-> mutated.out, rng |-> mutated.rng, err |-> ""]

\* the loop over list(self.current_populations.keys())
RECURSIVE EvolveRec(_, _, _, _, _, _, _, _, _)
EvolveRec(names, graph, gen, store, fit, active, wild, rate, r) ==
    IF names = <<>> THEN [store |-> store, rng |-> r, err |-> ""]
    ELSE LET name == Head(names)
             one == EvolveOne(DemeOf(graph, name), gen, store[name], fit, active,
                              wild, rate, r)
         IN  IF one.err # "" THEN [store |-> store, rng |-> r, err |-> one.err]
             ELSE EvolveRec(Tail(names), graph, gen, [store EXCEPT ![name] = one.out],
                            fit, active, wild, rate, one.rng)

-----------------------------------------------------------------------------
(* _handle_migration and _handle_pulses *)

\* migration.end_time <= generation <= migration.start_time
MigrationActive(migration, gen) ==
    /\ migration.end_time <= gen * TimeDen
    /\ IsInf(migration.start_time) \/ gen * TimeDen <= migration.start_time

\* MigrantCount that always adds the extra migrant
MigrantCountRoundsUp(n, rate, u) == IntMul(n, rate) + 1

\* num_migrants of a migration for the draw u: int(expected), one more when
\* u is below the fractional remainder
MigrantCount(n, rate, u) ==
    LET whole == IntMul(n, rate)
        remainder == << n * rate[1] - whole * rate[2], rate[2] >>
    IN  IF Below(u, remainder) THEN whole + 1 ELSE whole

\* Move that also puts the first individual of the destination into the source
MoveExchanges(store, source, dest, num_migrants, r) ==
    LET migrants == ChoiceN(store[source], num_migrants, r)
        written == Overwrite(store[dest], migrants.out, migrants.rng)
    IN  [store |-> [store EXCEPT ![dest] = written.out,
                                 ![source] = Replace(store[source], 1, store[dest][1])],
         rng |-> written.rng]

\* the migrants move: drawn from the source, written over random positions
\* of the destination
Move(store, source, dest, num_migrants, r) ==
    LET migrants == ChoiceN(store[source], num_migrants, r)
        written == Overwrite(store[dest], migrants.out, migrants.rng)
    IN  [store |-> [store EXCEPT ![dest] = written.out], rng |-> written.rng]

\* what the application of one interval or pulse did: which one, how many
\* migrants, the store before and after
Applied(index, x, num_migrants, pre, post) ==
    [index |-> index, source |-> x.source, dest |-> x.dest, n |-> num_migrants,
     pre |-> pre, post |-> post]

\* both populations are in the store and neither is empty
BothPresent(store, source, dest) ==
    /\ source \in DOMAIN store /\ dest \in DOMAIN store
    /\ store[source] # <<>> /\ store[dest] # <<>>

\* the loop over self.graph.migrations, from the k-th interval on
RECURSIVE MigrationRec(_, _, _, _, _, _)
MigrationRec(migrations, k, gen, store, r, log) ==
    IF k > Len(migrations) THEN [store |-> store, rng |-> r, log |-> log]
    ELSE LET m == migrations[k]
         IN  IF ~MigrationActive(m, gen) \/ ~BothPresent(store, m.source, m.dest)
             THEN MigrationRec(migrations, k + 1, gen, store, r, log)
             ELSE LET u == RngNext(r)
                      num_migrants == MigrantCount(Len(store[m.dest]), m.rate, u)
                      went == IF num_migrants > 0
                              THEN Move(store, m.source, m.dest, num_migrants, u)
                              ELSE [store |-> store, rng |-> u]
                  IN  MigrationRec(migrations, k + 1, gen, went.store, went.rng,
                          Append(log, Applied(k, m, num_migrants, store, went.store)))

HandleMigration(migrations, gen, store, r) ==
    MigrationRec(migrations, 1, gen, store, r, <<>>)

\* PulseFires comparing pulse.time with the generation without int()
PulseFiresExact(pulse, gen) == pulse.time = gen * TimeDen

\* int(pulse.time) == generation
PulseFires(pulse, gen) == Trunc(pulse.time) = gen

\* the loop over self.graph.pulses, from the k-th pulse on
RECURSIVE PulsesRec(_, _, _, _, _, _)
PulsesRec(pulses, k, gen, store, r, log) ==
    IF k > Len(pulses) THEN [store |-> store, rng |-> r, log |-> log]
    ELSE LET p == pulses[k]
         IN  IF ~PulseFires(p, gen) \/ ~BothPresent(store, p.source, p.dest)
             THEN PulsesRec(pulses, k + 1, gen, store, r, log)
             ELSE LET num_migrants == IntMul(Len(store[p.dest]), p.proportion)
                      went == Move(store, p.source, p.dest, num_migrants, r)
                  IN  PulsesRec(pulses, k + 1, gen, went.store, went.rng,
                          Append(log, Applied(k, p, num_migrants, store, went.store)))

HandlePulses(pulses, gen, store, r) == PulsesRec(pulses, 1, gen, store, r, <<>>)

-----------------------------------------------------------------------------
(* The census of run() *)

\* zero_freqs = {a: 0.0 for a in self.alleles}
ZeroFreqs(active) == [a \in Range(active) |-> <<0, 1>>]

\* CensusRecord keyed by the alleles counted in the population only
CensusRecordPresentOnly(pop_data, active, zero) ==
    IF pop_data = <<>> THEN zero
    ELSE [a \in Range(pop_data) |-> Frac(Count(a, pop_data), Len(pop_data))]

\* the record appended for one population
CensusRecord(pop_data, active, zero) ==
    IF pop_data = <<>> THEN zero
    ELSE [a \in Range(active) |-> Frac(Count(a, pop_data), Len(pop_data))]

\* CensusHistory that appends nothing for an empty population
CensusHistorySkipsEmpty(hist, store, active, zero) ==
    [name \in DOMAIN hist |->
        IF name \in DOMAIN store /\ store[name] # <<>>
        THEN Append(hist[name],
                    [a \in Range(active) |->
                        Frac(Count(a, store[name]), Len(store[name]))])
        ELSE hist[name]]

\* self.history after the census loop
CensusHistory(hist, store, active, zero) ==
    [name \in DOMAIN hist |->
        IF name \in DOMAIN store
        THEN Append(hist[name], CensusRecord(store[name], active, zero))
        ELSE hist[name]]

-----------------------------------------------------------------------------
(* The births of run() *)

\* StartGeneration with a horizon of 50 for a graph without finite start times
StartGenerationFifty(graph) ==
    LET finite_times == {graph.demes[k].start_time : k \in 1..Len(graph.demes)} \ {Inf}
        oldest == CHOOSE x \in finite_times : \A y \in finite_times : y <= x
    IN  IF finite_times = {} THEN HorizonBuffer
        ELSE (oldest + HorizonBuffer * TimeDen) \div TimeDen

\* start_generation
StartGeneration(graph) ==
    LET finite_times == {graph.demes[k].start_time : k \in 1..Len(graph.demes)} \ {Inf}
        oldest == CHOOSE x \in finite_times : \A y \in finite_times : y <= x
    IN  IF finite_times = {} THEN DefaultHorizon
        ELSE (oldest + HorizonBuffer * TimeDen) \div TimeDen

\* BirthCondition comparing pop.start_time with t without int()
BirthConditionExact(deme, gen, horizon) ==
    \/ ~IsInf(deme.start_time) /\ deme.start_time = gen * TimeDen
    \/ IsInf(deme.start_time) /\ gen = horizon

\* is_finite_start or is_root_start
BirthCondition(deme, gen, horizon) ==
    \/ ~IsInf(deme.start_time) /\ Trunc(deme.start_time) = gen
    \/ IsInf(deme.start_time) /\ gen = horizon

\* d with d[key] = value set (a new key goes last)
Put(d, key, value) == [k \in DOMAIN d \cup {key} |-> IF k = key THEN value ELSE d[k]]

\* BirthsRec creating a population again although its name is in the store
RECURSIVE BirthsRecRecreates(_, _, _, _, _, _, _)
BirthsRecRecreates(demes, gen, horizon, active, wild, freqs, st) ==
    IF demes = <<>> THEN st
    ELSE LET pop == Head(demes)
         IN  IF ~BirthCondition(pop, gen, horizon)
             THEN BirthsRecRecreates(Tail(demes), gen, horizon, active, wild, freqs, st)
             ELSE LET made == InitializePopulation(st.store, active, wild, freqs,
                                  pop.epochs[1].start_size, pop.ancestors,
                                  pop.proportions, st.rng)
                  IN  IF made.err # ""
                      THEN [st EXCEPT !.rng = made.rng, !.err = made.err]
                      ELSE BirthsRecRecreates(Tail(demes), gen, horizon, active, wild,
                               freqs,
                               [store |-> Put(st.store, pop.name, made.out),
                                keys |-> IF InSeq(pop.name, st.keys) THEN st.keys
                                         ELSE Append(st.keys, pop.name),
                                hist |-> Put(st.hist, pop.name, <<>>),
                                rng |-> made.rng,
                                born |-> Put(st.born, pop.name,
                                             (IF pop.name \in DOMAIN st.born
                                              THEN st.born[pop.name] ELSE 0) + 1),
                                err |-> ""])

\* the loop over self.graph.demes; st holds the store, its key order, the
\* histories, the generator, the creation counts and the exception raised
RECURSIVE BirthsRec(_, _, _, _, _, _, _)
BirthsRec(demes, gen, horizon, active, wild, freqs, st) ==
    IF demes = <<>> THEN st
    ELSE LET pop == Head(demes)
         IN  IF ~BirthCondition(pop, gen, horizon) \/ pop.name \in DOMAIN st.store
             THEN BirthsRec(Tail(demes), gen, horizon, active, wild, freqs, st)
             ELSE LET made == InitializePopulation(st.store, active, wild, freqs,
                                  pop.epochs[1].start_size, pop.ancestors,
                                  pop.proportions, st.rng)
                  IN  IF made.err # ""
                      THEN [st EXCEPT !.rng = made.rng, !.err = made.err]
                      ELSE BirthsRec(Tail(demes), gen, horizon, active, wild, freqs,
                               [store |-> Put(st.store, pop.name, made.out),
                                keys |-> Append(st.keys, pop.name),
                                hist |-> Put(st.hist, pop.name, <<>>),
                                rng |-> made.rng,
                                born |-> Put(st.born, pop.name,
                                             (IF pop.name \in DOMAIN st.born
                                              THEN st.born[pop.name] ELSE 0) + 1),
                                err |-> ""])

-----------------------------------------------------------------------------
(* Inputs *)

Seeds == (0..MaxSeed) \cup {NoSeed}

ScheduleLate == << Entry(AllFields, 2, "A", 7, <<1, 2>>) >>

\* allele 1 replaces all of A in the first generation of a run of 100
ScheduleFixed == << Entry(AllFields, 1, "A", 200, <<1, 1>>) >>

ScheduleDefault == << Entry(RequiredFields, 1, "A", 9, <<0, 1>>) >>

ScheduleTwo ==
    << Entry(AllFields, 1, "A", 6, <<1, 2>>), Entry(AllFields, 2, "B", -1, <<1, 1>>) >>

\* into the merged population, while its ancestors are stored and empty
ScheduleMerged == << Entry(AllFields, 2, "C", 2, <<1, 2>>) >>

ScheduleMissingField == << Entry({"allele", "start_time"}, 1, "A", 6, <<0, 1>>) >>

ScheduleUnknownAllele ==
    << Entry(AllFields, 1, "A", 6, <<1, 2>>), Entry(AllFields, 5, "A", 6, <<1, 2>>) >>

ScheduleOverfull == << Entry(AllFields, 1, "A", 6, <<3, 2>>) >>

\* alleles, initial_allele_frequency, mutation_rate, wild_type,
\* selection_coefficients, config
Params ==
    {  \* the defaults, with and without mutation
       << <<>>, ScalarFreq(<<1, 2>>), <<0, 1>>, 0, <<>>, NoConfig >>,
       << <<>>, ScalarFreq(<<1, 2>>), <<1, 4>>, 0, <<>>, NoConfig >>,
       \* a negative mutation rate; a positive one with the wild type alone
       << <<0, 1>>, ScalarFreq(<<1, 2>>), <<-1, 4>>, 0, <<>>, NoConfig >>,
       << <<0>>, ScalarFreq(<<1, 2>>), <<1, 4>>, 0, <<>>, NoConfig >>,
       \* the default wild type is not among the alleles
       << <<1, 2>>, ScalarFreq(<<1, 2>>), <<1, 4>>, 0, <<>>, NoConfig >>,
       << <<1, 2>>, ScalarFreq(<<1, 2>>), <<0, 1>>, 0, <<>>, NoConfig >>,
       \* a third allele, scheduled or not
       << <<0, 1, 2>>, NoneFreq, <<0, 1>>, 0, <<>>, ConfigFile(ScheduleLate) >>,
       << <<0, 1, 2>>, NoneFreq, <<1, 4>>, 0, <<>>, ConfigFile(ScheduleLate) >>,
       << <<0, 1, 2>>, ScalarFreq(<<1, 2>>), <<1, 4>>, 0, <<>>, ConfigFile(<<>>) >>,
       << <<0, 1, 2>>, NoneFreq, <<0, 1>>, 0, <<>>, ConfigFile(ScheduleTwo) >>,
       << <<0, 1, 2>>, NoneFreq, <<0, 1>>, 0, <<>>, ConfigFile(ScheduleMerged) >>,
       \* the wild type is a scheduled allele
       << <<0, 1>>, ScalarFreq(<<1, 2>>), <<1, 4>>, 1, <<>>, ConfigFile(ScheduleDefault) >>,
       \* every allele is scheduled
       << <<1>>, ScalarFreq(<<1, 2>>), <<0, 1>>, 0, <<>>, ConfigFile(ScheduleDefault) >>,
       << <<1>>, ScalarFreq(<<1, 2>>), <<0, 1>>, 1, <<>>, ConfigFile(ScheduleDefault) >>,
       \* selection: allele 1 lethal, allele 0 favoured; both lethal
       << <<0, 1>>, ScalarFreq(<<1, 2>>), <<0, 1>>, 0, << <<1, -1>>, <<0, 1>> >>, NoConfig >>,
       << <<0, 1>>, ScalarFreq(<<1, 2>>), <<1, 4>>, 0, << <<1, -1>> >>, NoConfig >>,
       << <<0, 1>>, ScalarFreq(<<1, 2>>), <<0, 1>>, 0, << <<0, -1>>, <<1, -2>> >>, NoConfig >>,
       \* alleles 0 and 1 lethal, the wild type 2 viable and in no root population
       << <<0, 1, 2>>, DictFreq(<< <<0, 1>>, <<1, 1>> >>, 2), <<0, 1>>, 2,
          << <<0, -1>>, <<1, -1>> >>, NoConfig >>,
       \* schedules the constructor rejects, and one it accepts but cannot run
       << <<0, 1>>, ScalarFreq(<<1, 2>>), <<0, 1>>, 0, <<>>, ConfigFile(ScheduleMissingField) >>,
       << <<0, 1>>, ScalarFreq(<<1, 2>>), <<0, 1>>, 0, <<>>, ConfigFile(ScheduleUnknownAllele) >>,
       << <<0, 1>>, ScalarFreq(<<1, 2>>), <<0, 1>>, 0, <<>>, ConfigFile(ScheduleOverfull) >>,
       \* initial frequencies given as a dict
       << <<0, 1>>, DictFreq(<< <<0, 1>>, <<1, 1>>, <<7, 2>> >>, 4), <<0, 1>>, 0, <<>>, NoConfig >>,
       << <<0, 1>>, DictFreq(<< <<7, 1>> >>, 1), <<0, 1>>, 0, <<>>, NoConfig >>
    }

\* scenario 3: no mutation, no selection; every root population starts with
\* allele 0 alone and the schedule fixes A for allele 1 at once
Scenario3Args(n, seed) ==
    Args(GraphScenario3(n), <<0, 1>>, ScalarFreq(<<1, 2>>), <<0, 1>>, 0, seed, <<>>,
         ConfigFile(ScheduleFixed))

Configs ==
    {Args(g, p[1], p[2], p[3], p[4], s, p[5], p[6]) :
        g \in Graphs \ {GraphScenario1}, p \in Params, s \in Seeds}
    \cup {Args(GraphScenario1, <<0, 1>>, ScalarFreq(<<1, 2>>), <<0, 1>>, 0, s, <<>>, NoConfig) :
            s \in Seeds}
    \cup {Scenario3Args(Scenario3Small, s) : s \in Seeds}

-----------------------------------------------------------------------------
(* The state machine *)

PhaseOrder == <<"births", "new_alleles", "evolution", "migration", "pulses", "census">>

\* NextPhase with the two migration steps placed before the evolution loop
NextPhaseMigrationFirst(p) ==
    CASE p = "births" -> "new_alleles"
      [] p = "new_alleles" -> "migration"
      [] p = "migration" -> "pulses"
      [] p = "pulses" -> "evolution"
      [] p = "evolution" -> "census"

\* the phase that follows phase p within a generation of run()
NextPhase(p) ==
    PhaseOrder[(CHOOSE k \in 1..Len(PhaseOrder) : PhaseOrder[k] = p) + 1]

Set(f, i, v) == [f EXCEPT ![i] = v]

\* a phase of simulator i ends: with exc raised, or on to the next phase
Proceed(i, exc) ==
    /\ pc' = Set(pc, i, IF exc # "" THEN "raised" ELSE NextPhase(pc[i]))
    /\ err' = Set(err, i, exc)
    /\ phases' = Set(phases, i, Append(phases[i], pc[i]))

\* no run() is executing: the process has one thread
Idle == \A j \in SimIds : pc[j] \in {"absent", "new", "failed", "ready", "done", "raised"}

InitWith(first, second, configs) ==
    /\ rng \in 0..MaxEntropy
    /\ cfg \in {[i \in SimIds |-> c] : c \in configs}
    /\ pc = [i \in SimIds |-> IF i = 1 THEN first ELSE second]
    /\ err = [i \in SimIds |-> ""]
    /\ alleles = [i \in SimIds |-> <<>>]
    /\ alleles_by_time = [i \in SimIds |-> <<>>]
    /\ fitness = [i \in SimIds |-> <<>>]
    /\ initial_freqs = [i \in SimIds |-> [keys |-> <<>>, w |-> <<>>, den |-> 1]]
    /\ current_populations = [i \in SimIds |-> <<>>]
    /\ pop_keys = [i \in SimIds |-> <<>>]
    /\ history = [i \in SimIds |-> <<>>]
    /\ start_generation = [i \in SimIds |-> 0]
    /\ t = [i \in SimIds |-> 0]
    /\ zero_freqs = [i \in SimIds |-> <<>>]
    /\ born = [i \in SimIds |-> <<>>]
    /\ phases = [i \in SimIds |-> <<>>]
    /\ moved = [i \in SimIds |-> <<>>]
    /\ runs = [i \in SimIds |-> 0]

\* one simulator is about to be constructed
Init == InitWith("new", "absent", Configs)

\* WrightFisherSim(...): seeds the shared generator, then validates
Construct(i) ==
    /\ Idle /\ pc[i] = "new"
    /\ rng' = IF cfg[i].seed # NoSeed THEN SeedState(cfg[i].seed) ELSE rng
    /\ err' = Set(err, i, InitError(cfg[i]))
    /\ IF InitError(cfg[i]) # ""
       THEN /\ pc' = Set(pc, i, "failed")
            /\ UNCHANGED <<alleles, alleles_by_time, fitness, initial_freqs>>
       ELSE /\ pc' = Set(pc, i, "ready")
            /\ alleles' = Set(alleles, i, ActiveAlleles(cfg[i]))
            /\ alleles_by_time' = Set(alleles_by_time, i, AllelesByTime(cfg[i]))
            /\ fitness' = Set(fitness, i, FitnessMap(cfg[i]))
            /\ initial_freqs' = Set(initial_freqs, i, InitialFreqs(cfg[i]))
    /\ UNCHANGED <<cfg, runs, current_populations, pop_keys, history, start_generation, t,
                   zero_freqs, born, phases, moved>>

\* run() up to the loop: the horizon
RunBegin(i) ==
    /\ Idle /\ pc[i] = "ready"
    /\ start_generation' = Set(start_generation, i, StartGeneration(cfg[i].graph))
    /\ t' = Set(t, i, StartGeneration(cfg[i].graph))
    /\ pc' = Set(pc, i, "births")
    /\ runs' = Set(runs, i, runs[i] + 1)
    /\ UNCHANGED <<rng, err, cfg, alleles, alleles_by_time, fitness, initial_freqs,
                   current_populations, pop_keys, history, zero_freqs, born,
                   phases, moved>>

\* steps 1 and 2 of a generation: zero_freqs and the births
Births(i) ==
    /\ pc[i] = "births"
    /\ LET st == BirthsRec(cfg[i].graph.demes, t[i], start_generation[i], alleles[i],
                           cfg[i].wild_type, initial_freqs[i],
                           [store |-> current_populations[i], keys |-> pop_keys[i],
                            hist |-> history[i], rng |-> rng, born |-> born[i],
                            err |-> ""])
       IN  /\ zero_freqs' = Set(zero_freqs, i, ZeroFreqs(alleles[i]))
           /\ current_populations' = Set(current_populations, i, st.store)
           /\ pop_keys' = Set(pop_keys, i, st.keys)
           /\ history' = Set(history, i, st.hist)
           /\ born' = Set(born, i, st.born)
           /\ rng' = st.rng
           /\ pc' = Set(pc, i, IF st.err # "" THEN "raised" ELSE NextPhase(pc[i]))
           /\ err' = Set(err, i, st.err)
           /\ phases' = Set(phases, i, << pc[i] >>)
           /\ moved' = Set(moved, i, <<>>)
    /\ UNCHANGED <<cfg, runs, alleles, alleles_by_time, fitness, initial_freqs,
                   start_generation, t>>

\* step 3: self._handle_new_alleles(t)
NewAlleles(i) ==
    /\ pc[i] = "new_alleles"
    /\ LET res == HandleNewAlleles(alleles_by_time[i], t[i], current_populations[i],
                                   alleles[i], rng)
       IN  /\ current_populations' = Set(current_populations, i, res.store)
           /\ alleles' = Set(alleles, i, res.alleles)
           /\ rng' = res.rng
           /\ Proceed(i, res.err)
    /\ UNCHANGED <<cfg, runs, alleles_by_time, fitness, initial_freqs, pop_keys, history,
                   start_generation, t, zero_freqs, born, moved>>

\* step 4: the evolution loop
Evolution(i) ==
    /\ pc[i] = "evolution"
    /\ LET res == EvolveRec(pop_keys[i], cfg[i].graph, t[i], current_populations[i],
                            fitness[i], alleles[i], cfg[i].wild_type,
                            cfg[i].mutation_rate, rng)
       IN  /\ current_populations' = Set(current_populations, i, res.store)
           /\ rng' = res.rng
           /\ Proceed(i, res.err)
    /\ UNCHANGED <<cfg, runs, alleles, alleles_by_time, fitness, initial_freqs, pop_keys,
                   history, start_generation, t, zero_freqs, born, moved>>

\* step 5, first half: self._handle_migration(t)
ContinuousMigration(i) ==
    /\ pc[i] = "migration"
    /\ LET res == HandleMigration(cfg[i].graph.migrations, t[i],
                                  current_populations[i], rng)
       IN  /\ current_populations' = Set(current_populations, i, res.store)
           /\ rng' = res.rng
           /\ moved' = Set(moved, i, res.log)
           /\ Proceed(i, "")
    /\ UNCHANGED <<cfg, runs, alleles, alleles_by_time, fitness, initial_freqs, pop_keys,
                   history, start_generation, t, zero_freqs, born>>

\* step 5, second half: self._handle_pulses(t)
PulseMigration(i) ==
    /\ pc[i] = "pulses"
    /\ LET res == HandlePulses(cfg[i].graph.pulses, t[i], current_populations[i], rng)
       IN  /\ current_populations' = Set(current_populations, i, res.store)
           /\ rng' = res.rng
           /\ moved' = Set(moved, i, res.log)
           /\ Proceed(i, "")
    /\ UNCHANGED <<cfg, runs, alleles, alleles_by_time, fitness, initial_freqs, pop_keys,
                   history, start_generation, t, zero_freqs, born>>

\* step 6: the census; then the next generation, or the return after t = 0
Census(i) ==
    /\ pc[i] = "census"
    /\ history' = Set(history, i, CensusHistory(history[i], current_populations[i],
                                                alleles[i], zero_freqs[i]))
    /\ pc' = Set(pc, i, IF t[i] = 0 THEN "done" ELSE "births")
    /\ t' = Set(t, i, IF t[i] = 0 THEN 0 ELSE t[i] - 1)
    /\ phases' = Set(phases, i, Append(phases[i], pc[i]))
    /\ UNCHANGED <<rng, err, cfg, runs, alleles, alleles_by_time, fitness, initial_freqs,
                   current_populations, pop_keys, start_generation, zero_freqs, born,
                   moved>>

Step(i) ==
    \/ Construct(i)
    \/ RunBegin(i)
    \/ Births(i)
    \/ NewAlleles(i)
    \/ Evolution(i)
    \/ ContinuousMigration(i)
    \/ PulseMigration(i)
    \/ Census(i)

Next == Step(1)

Spec == Init /\ [][Next]_vars

\* run() is called again on a simulator whose run() has returned
RunAgain(i) ==
    /\ Idle /\ pc[i] = "done" /\ runs[i] < MaxRuns
    /\ start_generation' = Set(start_generation, i, StartGeneration(cfg[i].graph))
    /\ t' = Set(t, i, StartGeneration(cfg[i].graph))
    /\ pc' = Set(pc, i, "births")
    /\ runs' = Set(runs, i, runs[i] + 1)
    /\ UNCHANGED <<rng, err, cfg, alleles, alleles_by_time, fitness, initial_freqs,
                   current_populations, pop_keys, history, zero_freqs, born,
                   phases, moved>>

\* one unseeded simulator is constructed and run() is called on it again
\* after each return
RerunConfigs ==
    {c \in Configs : c.seed = NoSeed /\ c.graph \in {GraphSingle, GraphSplit, GraphMerge}}

InitRerun == InitWith("new", "absent", RerunConfigs)

NextRerun == Step(1) \/ RunAgain(1)

SpecRerun == InitRerun /\ [][NextRerun]_vars

\* two simulators are about to be constructed with the same arguments and
\* the same seed; the process constructs and runs them in any order, one
\* call at a time
SeededConfigs ==
    {c \in Configs : /\ c.seed # NoSeed
                     /\ c.graph \in {GraphSingle, GraphSplit}
                     /\ c.alleles = <<>>}

InitTwo == InitWith("new", "new", SeededConfigs)

NextTwo == \E i \in SimIds : Step(i)

SpecTwo == InitTwo /\ [][NextTwo]_vars

-----------------------------------------------------------------------------
(* Vocabulary of the properties *)

Last(s) == s[Len(s)]

RECURSIVE SumOver(_, _)
SumOver(S, f) ==
    IF S = {} THEN 0
    ELSE LET x == CHOOSE y \in S : TRUE IN f[x] + SumOver(S \ {x}, f)

RECURSIVE ProductOver(_, _)
ProductOver(S, f) ==
    IF S = {} THEN 1
    ELSE LET x == CHOOSE y \in S : TRUE IN f[x] * ProductOver(S \ {x}, f)

\* the frequencies of a record add up to 1
SumsToOne(rec) ==
    LET den == ProductOver(DOMAIN rec, [a \in DOMAIN rec |-> rec[a][2]])
    IN  SumOver(DOMAIN rec, [a \in DOMAIN rec |-> rec[a][1] * (den \div rec[a][2])]) = den

\* simulator i has just taken the census of a generation
JustCensused(i) == phases[i] # <<>> /\ Last(phases[i]) = "census"

\* the generation of that census
CensusedGeneration(i) == IF pc[i] = "done" THEN 0 ELSE t[i] + 1

\* the birth generation of a deme: floor(start_time), the horizon for a root
BirthGeneration(deme, horizon) ==
    IF deme.start_time = Inf THEN horizon ELSE deme.start_time \div TimeDen

\* the horizon the specification gives: 100 without a finite birth time,
\* floor(max finite birth time) + 50 otherwise
Horizon(graph) ==
    LET finite == {graph.demes[k].start_time : k \in 1..Len(graph.demes)} \ {Inf}
    IN  IF finite = {} THEN 100
        ELSE (CHOOSE x \in finite : \A y \in finite : y <= x) \div TimeDen + 50

\* the configured alleles list ([0, 1] when none is given)
ConfiguredAlleles(i) == IF cfg[i].alleles = <<>> THEN {0, 1} ELSE Range(cfg[i].alleles)

Running(i) ==
    pc[i] \in {"births", "new_alleles", "evolution", "migration", "pulses", "census"}

-----------------------------------------------------------------------------
(* C1 *)

\* C1: at every census, the record of a population whose collection is not
\* empty sums to 1, i.e. every individual's allele is a key of the record,
\* for every accepted configuration.  The code breaks this when the wild
\* type is not an active allele: a back mutation writes it all the same.
C1_FrequenciesSumToOne ==
    \A i \in SimIds : \A name \in DOMAIN current_populations[i] :
        (JustCensused(i) /\ current_populations[i][name] # <<>>)
            => /\ SumsToOne(Last(history[i][name]))
               /\ Range(current_populations[i][name]) \subseteq DOMAIN Last(history[i][name])

-----------------------------------------------------------------------------
(* C2 *)

-----------------------------------------------------------------------------
(* C3 *)

\* C3: after the census of generation g every stored population has one
\* record per generation from its birth generation b down to g, b - g + 1
\* records; when run() returns every population of the graph is a key of the
\* result, with b + 1 records.
C3_OneRecordPerGenerationSinceBirth ==
    \A i \in SimIds :
        JustCensused(i) =>
            /\ \A name \in DOMAIN current_populations[i] :
                Len(history[i][name]) =
                    BirthGeneration(DemeOf(cfg[i].graph, name), Horizon(cfg[i].graph))
                    - CensusedGeneration(i) + 1
            /\ pc[i] = "done" =>
                /\ DOMAIN history[i] = DemeNames(cfg[i].graph)
                /\ \A name \in DOMAIN history[i] : history[i][name] # <<>>

\* run() has returned for the split graph: 53 records for the root, 3 for
\* the population born at generation 2
C3_Witness ==
    /\ pc[1] = "done"
    /\ cfg[1].graph = GraphSplit
    /\ Len(history[1]["A"]) = 53
    /\ Len(history[1]["B"]) = 3

-----------------------------------------------------------------------------
(* C4 *)

\* the configuration of scenario 1
IsScenario1(c) ==
    /\ Len(c.graph.demes) = 1
    /\ c.graph.demes[1].start_time = Inf
    /\ c.graph.demes[1].epochs = << Epoch(0, 20) >>
    /\ c.graph.migrations = <<>> /\ c.graph.pulses = <<>>
    /\ c.alleles = <<0, 1>>
    /\ c.initial_allele_frequency = ScalarFreq(<<1, 2>>)
    /\ c.mutation_rate[1] = 0
    /\ c.selection_coefficients = <<>>
    /\ ~c.config.present

\* run() has returned n records for the population of scenario 1, each
\* summing to 1
Scenario1Records(i, n) ==
    LET records == history[i][cfg[i].graph.demes[1].name]
    IN  /\ Len(records) = n
        /\ \A k \in 1..Len(records) : SumsToOne(records[k])

\* C4 as stated: scenario 1 yields exactly 51 records, each summing to 1.
C4_Scenario1Has51Records ==
    \A i \in SimIds : (pc[i] = "done" /\ IsScenario1(cfg[i])) => Scenario1Records(i, 51)

\* C4, amended: scenario 1 yields exactly 101 records (generations 100 down
\* to 0), each summing to 1.
C4_Scenario1Has101Records ==
    \A i \in SimIds : (pc[i] = "done" /\ IsScenario1(cfg[i])) => Scenario1Records(i, 101)

\* run() has returned in scenario 1, and both alleles were recorded on the way
C4_Witness ==
    /\ pc[1] = "done" /\ IsScenario1(cfg[1])
    /\ \E k \in 1..Len(history[1]["A"]) :
        history[1]["A"][k][0] # <<0, 1>> /\ history[1]["A"][k][1] # <<0, 1>>

-----------------------------------------------------------------------------
(* C5 *)

\* C5: within a generation the phases run once each, in the order births,
\* allele introduction, drift/selection with mutation, continuous migration,
\* pulses, census; the record of the census is the state the pulse phase left.
C5_PhasesOnceInOrder ==
    \A i \in SimIds :
        LET order == <<"births", "new_alleles", "evolution", "migration", "pulses",
                       "census">>
        IN  /\ Len(phases[i]) <= Len(order)
            /\ phases[i] = SubSeq(order, 1, Len(phases[i]))
            /\ Running(i) => pc[i] = order[(Len(phases[i]) % Len(order)) + 1]
            /\ JustCensused(i) =>
                /\ phases[i] = order
                /\ \A name \in DOMAIN current_populations[i] :
                    LET pop == current_populations[i][name]
                    IN  \A a \in DOMAIN Last(history[i][name]) :
                            pop # <<>> =>
                                Last(history[i][name])[a] = Frac(Count(a, pop), Len(pop))

\* the census of generation 5 of the merge graph, the generation of its
\* pulse, with a migration active and both populations alive
C5_Witness ==
    /\ JustCensused(1)
    /\ cfg[1].graph = GraphMerge
    /\ CensusedGeneration(1) = 5
    /\ current_populations[1]["A"] # <<>>
    /\ current_populations[1]["B"] # <<>>

-----------------------------------------------------------------------------
(* C6 *)

\* C6: run() processes the generations horizon, ..., 0 and returns: once
\* begun it is at a phase of some generation or has returned after
\* generation 0, and its horizon is 100 or floor(max finite birth) + 50.
\* The code leaves the loop early, by an exception, in the runs of C8.
C6_RunReachesGenerationZero ==
    \A i \in SimIds :
        pc[i] \notin {"absent", "new", "failed", "ready"} =>
            /\ start_generation[i] = Horizon(cfg[i].graph)
            /\ t[i] \in 0..start_generation[i]
            /\ Running(i) \/ (pc[i] = "done" /\ t[i] = 0)

-----------------------------------------------------------------------------
(* C7 *)

\* C7: two simulators constructed with identical arguments and the same seed
\* return identical histories, whatever else the process constructs or runs
\* between a simulator's construction and its run.  The code seeds and draws
\* from the one generator of module random, so a simulator run after another
\* one starts from the state the other left.
C7_SameSeedSameHistory ==
    (/\ pc[1] = "done" /\ pc[2] = "done"
     /\ cfg[1] = cfg[2] /\ cfg[1].seed # NoSeed)
        => history[1] = history[2]

-----------------------------------------------------------------------------
(* C8 *)

\* C8: once the constructor has accepted the configuration, no operation of
\* run() raises.  The code raises KeyError when an individual carries an
\* allele without a fitness entry and ValueError when an introduction asks
\* for more positions than the population holds.
C8_RunNeverRaises ==
    \A i \in SimIds : pc[i] # "failed" => err[i] = ""

-----------------------------------------------------------------------------
(* C9 *)

\* C9: the constructor ends with a validation error exactly when an entry of
\* the schedule lacks allele, population or start_time, or names an allele
\* that is not in the configured list; an accepted schedule has every entry
\* registered under the generation trunc(start_time), and nothing else.
C9_ScheduleValidation ==
    \A i \in SimIds :
        pc[i] \notin {"absent", "new"} =>
            LET entries == cfg[i].config.new_alleles
                Bad(e) == \/ {"allele", "population", "start_time"} \ e.fields # {}
                          \/ e.allele \notin ConfiguredAlleles(i)
                Gen(e) == IF e.start_time >= 0 THEN e.start_time \div TimeDen
                          ELSE -((-e.start_time) \div TimeDen)
                rejected == \E k \in 1..Len(entries) : Bad(entries[k])
            IN  /\ (pc[i] = "failed" /\ err[i] = "ValueError") <=> rejected
                /\ (pc[i] = "failed") => alleles_by_time[i] = <<>>
                /\ pc[i] # "failed" =>
                    /\ \A k \in 1..Len(entries) :
                        /\ Gen(entries[k]) \in DOMAIN alleles_by_time[i]
                        /\ InSeq(entries[k], alleles_by_time[i][Gen(entries[k])])
                    /\ \A g \in DOMAIN alleles_by_time[i] :
                        \A e \in Range(alleles_by_time[i][g]) :
                            InSeq(e, entries) /\ Gen(e) = g

\* the constructor has rejected a schedule whose second entry names an
\* allele outside the configured list
C9_Witness ==
    /\ pc[1] = "failed" /\ err[1] = "ValueError"
    /\ cfg[1].config.new_alleles = ScheduleUnknownAllele

-----------------------------------------------------------------------------
(* C10 *)

\* C10: after the births of generation g the store holds exactly the
\* populations whose birth generation is >= g, so none is ever removed, and
\* each was initialized exactly once.
C10_StoreHoldsExactlyTheBorn ==
    \A i \in SimIds :
        (Running(i) /\ pc[i] # "births") =>
            /\ DOMAIN current_populations[i] =
                {name \in DemeNames(cfg[i].graph) :
                    BirthGeneration(DemeOf(cfg[i].graph, name), Horizon(cfg[i].graph))
                        >= t[i]}
            /\ DOMAIN born[i] = DOMAIN current_populations[i]
            /\ \A name \in DOMAIN born[i] : born[i][name] = 1

\* generation 1 of the merge graph: the merged population is stored, and so
\* are its two ancestors, both empty
C10_Witness ==
    /\ pc[1] = "census" /\ t[1] = 1
    /\ cfg[1].graph = GraphMerge
    /\ DOMAIN current_populations[1] = {"A", "B", "C"}
    /\ current_populations[1]["A"] = <<>>
    /\ current_populations[1]["C"] # <<>>

-----------------------------------------------------------------------------
(* C11 *)

\* the size the graph gives a deme for generation g: that of the epoch
\* holding the time just before g (time 0 for g = 0), 0 outside every epoch
GraphSize(deme, g) ==
    LET Holds(k) ==
            LET from == IF k = 1 THEN deme.start_time ELSE deme.epochs[k - 1].end_time
                to == deme.epochs[k].end_time
            IN  IF g = 0 THEN to = 0
                ELSE (from = Inf \/ from >= g * TimeDen) /\ to < g * TimeDen
        ks == {k \in 1..Len(deme.epochs) : Holds(k)}
    IN  IF ks = {} THEN 0
        ELSE deme.epochs[CHOOSE k \in ks : \A j \in ks : k <= j].start_size

\* C11: at the census of generation t every stored population has length 0
\* or the size the graph gives it for t, its birth generation included; the
\* introduction of alleles, the continuous migration, the pulses and the
\* mutation operator leave every length as it was.
C11_LengthIsGraphSize ==
    [][\A i \in SimIds :
        /\ pc[i] = "census" =>
            \A name \in DOMAIN current_populations[i] :
                Len(current_populations[i][name])
                    \in {0, GraphSize(DemeOf(cfg[i].graph, name), t[i])}
        /\ pc[i] \in {"new_alleles", "migration", "pulses"} =>
            /\ DOMAIN current_populations'[i] = DOMAIN current_populations[i]
            /\ \A name \in DOMAIN current_populations[i] :
                Len(current_populations'[i][name]) = Len(current_populations[i][name])
        /\ pc[i] = "evolution" =>
            \A name \in DOMAIN current_populations[i] :
                Len(HandleMutations(current_populations[i][name], alleles[i],
                                    cfg[i].wild_type, cfg[i].mutation_rate, rng).out)
                    = Len(current_populations[i][name])
      ]_vars

\* the census of the generation in which B of the split graph is born: it
\* was created with two individuals and has the three of its second epoch
C11_Witness ==
    /\ JustCensused(1)
    /\ cfg[1].graph = GraphSplit
    /\ CensusedGeneration(1) = 2
    /\ DemeOf(cfg[1].graph, "B").epochs[1].start_size = 2
    /\ Len(current_populations[1]["B"]) = 3
    /\ Len(current_populations[1]["A"]) = 2

-----------------------------------------------------------------------------
(* C12 *)

\* C12: every individual of every population carries an allele of the
\* configured alleles list, in every state of a run.  The code writes the
\* wild type (mutation, empty ancestors) and starts from the allele 0 (every
\* allele scheduled) without asking whether they are in the list.
C12_AllelesWithinConfigured ==
    \A i \in SimIds : \A name \in DOMAIN current_populations[i] :
        Range(current_populations[i][name]) \subseteq ConfiguredAlleles(i)

-----------------------------------------------------------------------------
(* C13 *)

\* the finite times of the events of a graph: births, pulses, starts of
\* continuous migrations
EventTimes(graph) ==
    ({graph.demes[k].start_time : k \in 1..Len(graph.demes)}
        \cup {graph.pulses[k].time : k \in 1..Len(graph.pulses)}
        \cup {graph.migrations[k].start_time : k \in 1..Len(graph.migrations)})
    \ {Inf}

\* C13: the horizon of run() lies at least 50 generations above the
\* generation of every event of the graph that has a finite time, so every
\* such event falls strictly inside the simulated window.  The code derives
\* the horizon from the births alone; a pulse older than that is never
\* reached.
C13_EventsBelowHorizon ==
    \A i \in SimIds :
        pc[i] \notin {"absent", "new", "failed", "ready"} =>
            \A e \in EventTimes(cfg[i].graph) :
                /\ e \div TimeDen < start_generation[i]
                /\ e \div TimeDen + 50 <= start_generation[i]

-----------------------------------------------------------------------------
(* C14 *)

\* C14: every fitness is max(0, 1 + s) >= 0, and the drift / selection step
\* applied to a stored population that is not empty, in a generation for
\* which the graph gives it a positive size, yields the empty collection when
\* the total weight is 0 and otherwise a collection of exactly that size
\* whose alleles all occur in the old collection and have positive fitness.
\* The code has no fitness for an allele outside the configured list (C12),
\* and the step raises KeyError on a population that holds one (C8).
C14_DriftKeepsSizeAndViableAlleles ==
    \A i \in SimIds :
        /\ \A a \in DOMAIN fitness[i] :
            /\ fitness[i][a] >= 0
            /\ fitness[i][a] =
                LET s == Get(cfg[i].selection_coefficients, a, 0)
                IN  IF 1 + s > 0 THEN 1 + s ELSE 0
        /\ pc[i] = "evolution" =>
            \A name \in DOMAIN current_populations[i] :
                LET old == current_populations[i][name]
                    size == GraphSize(DemeOf(cfg[i].graph, name), t[i])
                IN  (old # <<>> /\ size > 0) =>
                        /\ Range(old) \subseteq DOMAIN fitness[i]
                        /\ LET w == [k \in 1..Len(old) |-> fitness[i][old[k]]]
                           IN  IF SumSeq(w) = 0
                               THEN EvolveOne(DemeOf(cfg[i].graph, name), t[i], old,
                                              fitness[i], alleles[i], cfg[i].wild_type,
                                              cfg[i].mutation_rate, rng).out = <<>>
                               ELSE LET new == Choices(old, w, size, rng).out
                                    IN  /\ Len(new) = size
                                        /\ Range(new) \subseteq Range(old)
                                        /\ \A a \in Range(new) : fitness[i][a] > 0

-----------------------------------------------------------------------------
(* C15 *)

\* the population is doomed in generation g: the graph gives it no positive
\* size, or every individual has fitness 0
Doomed(i, name, g) ==
    LET old == current_populations[i][name]
    IN  \/ GraphSize(DemeOf(cfg[i].graph, name), g) <= 0
        \/ /\ old # <<>>
           /\ Range(old) \subseteq DOMAIN fitness[i]
           /\ \A k \in 1..Len(old) : fitness[i][old[k]] = 0

\* C15: a stored population whose size for the generation is <= 0 or whose
\* total weight is 0 is empty once the evolution loop is through; an empty
\* population stays empty through the migration and the pulses of the
\* generation; and the census appends for it the baseline of the generation,
\* in which every frequency is 0.0.
C15_ExtinctStaysEmptyAndRecordsZero ==
    [][\A i \in SimIds : \A name \in DOMAIN current_populations[i] :
        /\ (pc[i] = "evolution" /\ pc'[i] = "migration" /\ Doomed(i, name, t[i]))
            => current_populations'[i][name] = <<>>
        /\ (pc[i] \in {"migration", "pulses"} /\ current_populations[i][name] = <<>>)
            => current_populations'[i][name] = <<>>
        /\ (pc[i] = "census" /\ current_populations[i][name] = <<>>)
            => /\ Len(history'[i][name]) = Len(history[i][name]) + 1
               /\ Last(history'[i][name]) = zero_freqs[i]
               /\ \A a \in DOMAIN Last(history'[i][name]) :
                    Last(history'[i][name])[a] = <<0, 1>>
               /\ DOMAIN Last(history'[i][name]) # {}
      ]_vars

\* a census of the split graph under lethal selection: A has a positive size
\* for the generation, is empty, and its record is the zero baseline
C15_Witness ==
    /\ JustCensused(1)
    /\ cfg[1].graph = GraphSplit
    /\ GraphSize(DemeOf(cfg[1].graph, "A"), CensusedGeneration(1)) > 0
    /\ \A a \in DOMAIN fitness[1] : fitness[1][a] = 0
    /\ current_populations[1]["A"] = <<>>
    /\ Last(history[1]["A"]) = [a \in {0, 1} |-> <<0, 1>>]

-----------------------------------------------------------------------------
(* C16 *)

\* the population was created in the current generation: it is stored and
\* no census has recorded it yet
BornNow(i, name) == name \in DOMAIN history[i] /\ history[i][name] = <<>>

\* the deme has ancestors, and every one of them is stored and empty
AncestorsEmpty(i, name) ==
    LET ancestors == DemeOf(cfg[i].graph, name).ancestors
    IN  /\ ancestors # <<>>
        /\ \A k \in 1..Len(ancestors) :
            /\ ancestors[k] \in DOMAIN current_populations[i]
            /\ current_populations[i][ancestors[k]] = <<>>

\* C16 as stated: a population whose ancestors are all empty at its birth
\* generation is empty after the evolution loop of that generation, which is
\* the collection the census of the generation records (the phases after the
\* loop change no length).
C16_EmptyAncestorsGiveExtinctChild ==
    [][\A i \in SimIds : \A name \in DOMAIN current_populations[i] :
        (/\ pc[i] = "evolution" /\ pc'[i] = "migration"
         /\ BornNow(i, name) /\ AncestorsEmpty(i, name))
            => current_populations'[i][name] = <<>>
      ]_vars

\* C16, amended: a population whose ancestors are all empty at its birth
\* generation is created at its full initial size, with int(size * proportion)
\* individuals carrying the wild type for each ancestor and any shortfall
\* drawn from the active alleles, and creating it raises nothing; it is not
\* empty after the evolution loop of that generation unless the graph gives
\* it no positive size or all its individuals have fitness 0.
C16_EmptyAncestorsGiveWildTypeChild ==
    [][\A i \in SimIds :
        /\ pc[i] = "births" =>
            \A name \in DOMAIN current_populations'[i] \ DOMAIN current_populations[i] :
                AncestorsEmpty(i, name) =>
                    LET deme == DemeOf(cfg[i].graph, name)
                        size == deme.epochs[1].start_size
                        new == current_populations'[i][name]
                        parts == [k \in 1..Len(deme.ancestors) |->
                                    (size * deme.proportions[k][1])
                                        \div deme.proportions[k][2]]
                    IN  /\ err'[i] = ""
                        /\ Len(new) = size
                        /\ Count(cfg[i].wild_type, new) >= SumSeq(parts)
                        /\ Range(new) \subseteq {cfg[i].wild_type} \cup Range(alleles[i])
        /\ pc[i] = "evolution" /\ pc'[i] = "migration" =>
            \A name \in DOMAIN current_populations[i] :
                (/\ BornNow(i, name) /\ AncestorsEmpty(i, name)
                 /\ ~Doomed(i, name, t[i]))
                    => /\ current_populations'[i][name] # <<>>
                       /\ Len(current_populations'[i][name]) =
                            GraphSize(DemeOf(cfg[i].graph, name), t[i])
      ]_vars

\* the census of the generation in which B of the split graph is born from
\* the extinct A: B holds three individuals, all of the wild type 2
C16_Witness ==
    /\ pc[1] = "census" /\ t[1] = 2
    /\ cfg[1].graph = GraphSplit
    /\ cfg[1].wild_type = 2
    /\ BornNow(1, "B") /\ AncestorsEmpty(1, "B")
    /\ current_populations[1]["B"] = <<2, 2, 2>>

-----------------------------------------------------------------------------
(* C17 *)

\* the mutation operator applied to a stored population of simulator i,
\* with the generator as it stands
Mutated(i, name) ==
    HandleMutations(current_populations[i][name], alleles[i], cfg[i].wild_type,
                    cfg[i].mutation_rate, rng).out

\* C17: the mutation operator keeps the length of the population and leaves
\* each position unchanged, or turns a wild type into a non-wild-type allele
\* of the active set, or turns a non-wild-type allele into the wild type;
\* no mutant becomes another mutant in one step.
C17_MutationThreeWays ==
    \A i \in SimIds : \A name \in DOMAIN current_populations[i] :
        LET pop == current_populations[i][name]
            wild == cfg[i].wild_type
            out == Mutated(i, name)
        IN  /\ Len(out) = Len(pop)
            /\ \A k \in 1..Len(pop) :
                \/ out[k] = pop[k]
                \/ pop[k] = wild /\ out[k] # wild /\ out[k] \in Range(alleles[i])
                \/ pop[k] # wild /\ out[k] = wild

\* the operator turns one wild type into a mutant and one mutant into the
\* wild type in the same population, with two mutant alleles active
C17_Witness ==
    \E name \in DOMAIN current_populations[1] :
        LET pop == current_populations[1][name]
            wild == cfg[1].wild_type
            out == Mutated(1, name)
        IN  /\ Cardinality(Range(alleles[1]) \ {wild}) >= 2
            /\ \E k \in 1..Len(pop) : pop[k] = wild /\ out[k] # wild
            /\ \E k \in 1..Len(pop) : pop[k] # wild /\ out[k] = wild

-----------------------------------------------------------------------------
(* C18 *)

\* the evolution loop of run() with the call of the mutation operator
\* removed: drift / selection alone, population by population
RECURSIVE DriftOnly(_, _, _, _, _, _)
DriftOnly(names, graph, gen, store, fit, r) ==
    IF names = <<>> THEN [store |-> store, rng |-> r, err |-> ""]
    ELSE LET name == Head(names)
             old == store[name]
             size == SizeAt(DemeOf(graph, name), gen)
         IN  IF size <= 0
             THEN DriftOnly(Tail(names), graph, gen, [store EXCEPT ![name] = <<>>],
                            fit, r)
             ELSE IF old = <<>> THEN DriftOnly(Tail(names), graph, gen, store, fit, r)
             ELSE IF Range(old) \ DOMAIN fit # {}
             THEN [store |-> store, rng |-> r, err |-> "KeyError"]
             ELSE IF SumSeq(Weights(fit, old)) = 0
             THEN DriftOnly(Tail(names), graph, gen, [store EXCEPT ![name] = <<>>],
                            fit, r)
             ELSE LET new == Choices(old, Weights(fit, old), size, r)
                  IN  DriftOnly(Tail(names), graph, gen,
                                [store EXCEPT ![name] = new.out], fit, new.rng)

\* the mutation operator has nothing to do for simulator i: the rate is
\* <= 0, or no active allele differs from the wild type
MutationIdle(i) ==
    \/ cfg[i].mutation_rate[1] <= 0
    \/ Range(alleles[i]) \subseteq {cfg[i].wild_type}

\* C18: with a mutation rate <= 0, or without a non-wild-type active allele,
\* the mutation operator returns the population as it was and draws
\* nothing; so the evolution loop of such a run changes the store, the
\* generator and the outcome exactly as the loop without the mutation call
\* does, generation by generation, and the two runs record the same
\* histories from the same seed.
C18_ZeroRateIsNoMutation ==
    [][\A i \in SimIds :
        MutationIdle(i) =>
            /\ \A name \in DOMAIN current_populations[i] :
                HandleMutations(current_populations[i][name], alleles[i],
                                cfg[i].wild_type, cfg[i].mutation_rate, rng)
                    = [out |-> current_populations[i][name], rng |-> rng]
            /\ pc[i] = "evolution" =>
                LET drift == DriftOnly(pop_keys[i], cfg[i].graph, t[i],
                                       current_populations[i], fitness[i], rng)
                IN  /\ current_populations'[i] = drift.store
                    /\ rng' = drift.rng
                    /\ err'[i] = drift.err
                    /\ history'[i] = history[i]
      ]_vars

\* the evolution loop has just drawn a new generation of two alleles in a
\* run whose mutation rate is negative, wild type and mutant both active
C18_Witness ==
    /\ pc[1] = "migration"
    /\ cfg[1].mutation_rate[1] < 0
    /\ Range(alleles[1]) = {0, 1} /\ cfg[1].wild_type = 0
    /\ t[1] < start_generation[1]
    /\ \E name \in DOMAIN current_populations[1] :
        Range(current_populations[1][name]) = {0, 1}

-----------------------------------------------------------------------------
(* C19 *)

\* the intervals of the graph that are to be applied at generation g on the
\* populations of simulator i: end_time <= g <= start_time, source and
\* destination stored and not empty
DueIntervals(i, g) ==
    LET ms == cfg[i].graph.migrations
        store == current_populations[i]
    IN  {k \in 1..Len(ms) :
            /\ ms[k].end_time <= g * TimeDen
            /\ ms[k].start_time = Inf \/ g * TimeDen <= ms[k].start_time
            /\ ms[k].source \in DOMAIN store /\ ms[k].dest \in DOMAIN store
            /\ Len(store[ms[k].source]) > 0 /\ Len(store[ms[k].dest]) > 0}

\* C19: the continuous migration of generation t applies exactly the
\* intervals with end_time <= t <= start_time whose source and destination
\* are stored and not empty, each once and in the order of the graph; the
\* number of migrants of an applied interval is floor(len(dest) * rate) or
\* one more, and is len(dest) * rate when that product is an integer.
C19_MigrationAppliedAndCounted ==
    [][\A i \in SimIds :
        pc[i] = "migration" =>
            LET ms == cfg[i].graph.migrations
                log == moved'[i]
            IN  /\ {log[j].index : j \in 1..Len(log)} = DueIntervals(i, t[i])
                /\ \A j, k \in 1..Len(log) : j < k => log[j].index < log[k].index
                /\ \A j \in 1..Len(log) :
                    LET rate == ms[log[j].index].rate
                        product == Len(current_populations[i][log[j].dest]) * rate[1]
                        floor == product \div rate[2]
                    IN  /\ log[j].n \in {floor, floor + 1}
                        /\ product % rate[2] = 0 => log[j].n = floor
      ]_vars

\* the migration phase of the merge graph has applied both intervals: the
\* expected 0.5 migrants into A were rounded up to one, and exactly one
\* migrant went into B, as 2 * 1/2 says
C19_Witness ==
    /\ pc[1] = "pulses"
    /\ cfg[1].graph = GraphMerge
    /\ Len(moved[1]) = 2
    /\ moved[1][1].dest = "A" /\ moved[1][1].n = 1
    /\ moved[1][2].dest = "B" /\ moved[1][2].n = 1

-----------------------------------------------------------------------------
(* C20 *)

\* the positions at which two collections of the same length differ
Changed(before, after) == {k \in 1..Len(before) : after[k] # before[k]}

\* C20: the continuous migration and the pulses change destinations only.
\* Each applied interval or pulse keeps the length of its destination and
\* changes at most num_migrants of its positions, each to an allele the
\* source holds at that moment, and leaves the source and every other
\* population as they are; a population that is the destination of nothing
\* applied is the same after the phase, and so are the histories, the active
\* alleles and the keys of the store.
C20_MigrationWritesDestinationsOnly ==
    [][\A i \in SimIds :
        pc[i] \in {"migration", "pulses"} =>
            LET log == moved'[i]
                before == current_populations[i]
                after == current_populations'[i]
            IN  /\ \A j \in 1..Len(log) :
                    LET e == log[j]
                    IN  /\ e.source # e.dest
                        /\ e.pre = IF j = 1 THEN before ELSE log[j - 1].post
                        /\ DOMAIN e.post = DOMAIN e.pre
                        /\ \A name \in DOMAIN e.pre \ {e.dest} :
                            e.post[name] = e.pre[name]
                        /\ Len(e.post[e.dest]) = Len(e.pre[e.dest])
                        /\ Cardinality(Changed(e.pre[e.dest], e.post[e.dest])) <= e.n
                        /\ \A k \in Changed(e.pre[e.dest], e.post[e.dest]) :
                            e.post[e.dest][k] \in Range(e.pre[e.source])
                /\ after = IF log = <<>> THEN before ELSE log[Len(log)].post
                /\ \A name \in DOMAIN before :
                    name \notin {log[j].dest : j \in 1..Len(log)}
                        => after[name] = before[name]
                /\ history'[i] = history[i]
                /\ alleles'[i] = alleles[i]
                /\ pop_keys'[i] = pop_keys[i]
      ]_vars

\* the pulse of generation 5 of the merge graph has put an allele of A over
\* one individual of B
C20_Witness ==
    /\ pc[1] = "census" /\ t[1] = 5
    /\ cfg[1].graph = GraphMerge
    /\ Len(moved[1]) = 1
    /\ moved[1][1].source = "A" /\ moved[1][1].dest = "B" /\ moved[1][1].n = 1
    /\ Cardinality(Changed(moved[1][1].pre["B"], moved[1][1].post["B"])) = 1
    /\ current_populations[1]["B"] = moved[1][1].post["B"]

-----------------------------------------------------------------------------
(* C21 *)

\* the pulses of the graph that are to fire at generation g on the
\* populations of simulator i: the time truncates to g, source and
\* destination are stored and not empty
DuePulses(i, g) ==
    LET ps == cfg[i].graph.pulses
        store == current_populations[i]
    IN  {k \in 1..Len(ps) :
            /\ ps[k].time \div TimeDen = g
            /\ ps[k].source \in DOMAIN store /\ ps[k].dest \in DOMAIN store
            /\ Len(store[ps[k].source]) > 0 /\ Len(store[ps[k].dest]) > 0}

\* the sum of the migrant counts of a log
RECURSIVE MigrantTotal(_)
MigrantTotal(log) == IF log = <<>> THEN 0 ELSE Head(log).n + MigrantTotal(Tail(log))

\* C21: the pulse phase of generation t comes after the continuous
\* migration and before the census and fires exactly the pulses whose time
\* truncates to t, on populations that are stored and not empty; a fired
\* pulse moves floor(len(dest) * proportion) migrants, with no random
\* rounding (two draws per migrant, none else); a pulse of another
\* generation, of an absent or empty population, or of no migrant changes
\* nothing.
C21_PulseFiresAtTruncatedTime ==
    [][\A i \in SimIds :
        pc[i] = "pulses" =>
            LET ps == cfg[i].graph.pulses
                log == moved'[i]
            IN  /\ phases[i] = <<"births", "new_alleles", "evolution", "migration">>
                /\ pc'[i] = "census"
                /\ {log[j].index : j \in 1..Len(log)} = DuePulses(i, t[i])
                /\ Len(log) = Cardinality(DuePulses(i, t[i]))
                /\ \A j \in 1..Len(log) :
                    LET prop == ps[log[j].index].proportion
                    IN  log[j].n =
                            (Len(current_populations[i][log[j].dest]) * prop[1])
                                \div prop[2]
                /\ rng' = Advance(rng, 2 * MigrantTotal(log))
                /\ MigrantTotal(log) = 0 =>
                    current_populations'[i] = current_populations[i]
      ]_vars

\* generation 0 of the split graph: the pulse from B to A has fired on the
\* one individual of A and moved floor(1 * 0.5) = 0 migrants
C21_Witness ==
    /\ pc[1] = "census" /\ t[1] = 0
    /\ cfg[1].graph = GraphSplit
    /\ Len(moved[1]) = 1
    /\ moved[1][1].source = "B" /\ moved[1][1].dest = "A" /\ moved[1][1].n = 0
    /\ Len(current_populations[1]["A"]) = 1
    /\ Len(current_populations[1]["B"]) = 3

-----------------------------------------------------------------------------
(* C22 *)

\* the population sizes of scenario 3 at the pulse
Scenario3Sizes == {4, 12, 400}

\* the states of the generator at the pulse of scenario 3 are 0..MaxPulseEntropy
MaxPulseEntropy == 39

\* simulator 1, constructed with c, has reached the pulse phase of
\* generation 10 of scenario 3: the schedule has fixed A for allele 1 in
\* generation 100, B has kept allele 0, and 90 censuses have been taken
Scenario3BeforePulse(c) ==
    LET n == c.graph.demes[1].epochs[1].start_size
        one == <<1, 1>>
        zero == <<0, 1>>
    IN  /\ cfg = [i \in SimIds |-> c]
        /\ pc = [i \in SimIds |-> IF i = 1 THEN "pulses" ELSE "absent"]
        /\ err = [i \in SimIds |-> ""]
        /\ alleles = [i \in SimIds |-> IF i = 1 THEN <<0, 1>> ELSE <<>>]
        /\ alleles_by_time = [i \in SimIds |-> IF i = 1 THEN AllelesByTime(c) ELSE <<>>]
        /\ fitness = [i \in SimIds |-> IF i = 1 THEN FitnessMap(c) ELSE <<>>]
        /\ initial_freqs = [i \in SimIds |->
                IF i = 1 THEN InitialFreqs(c) ELSE [keys |-> <<>>, w |-> <<>>, den |-> 1]]
        /\ current_populations = [i \in SimIds |->
                IF i = 1 THEN [name \in {"A", "B"} |->
                                  IF name = "A" THEN Repeat(1, n) ELSE Repeat(0, n)]
                ELSE <<>>]
        /\ pop_keys = [i \in SimIds |-> IF i = 1 THEN <<"A", "B">> ELSE <<>>]
        /\ history = [i \in SimIds |->
                IF i = 1 THEN [name \in {"A", "B"} |->
                                  IF name = "A"
                                  THEN Repeat([a \in {0, 1} |-> IF a = 1 THEN one ELSE zero],
                                              DefaultHorizon - 10)
                                  ELSE Repeat([a \in {0, 1} |-> IF a = 0 THEN one ELSE zero],
                                              DefaultHorizon - 10)]
                ELSE <<>>]
        /\ start_generation = [i \in SimIds |-> IF i = 1 THEN DefaultHorizon ELSE 0]
        /\ t = [i \in SimIds |-> IF i = 1 THEN 10 ELSE 0]
        /\ zero_freqs = [i \in SimIds |-> IF i = 1 THEN ZeroFreqs(<<0, 1>>) ELSE <<>>]
        /\ born = [i \in SimIds |-> IF i = 1 THEN [name \in {"A", "B"} |-> 1] ELSE <<>>]
        /\ phases = [i \in SimIds |->
                IF i = 1 THEN <<"births", "new_alleles", "evolution", "migration">>
                ELSE <<>>]
        /\ moved = [i \in SimIds |-> <<>>]
        /\ runs = [i \in SimIds |-> IF i = 1 THEN 1 ELSE 0]

\* every full run of scenario 3 comes to its pulse in that state, whatever
\* the generator has drawn
Scenario3RunReachesPulse ==
    (/\ pc[1] = "pulses" /\ t[1] = 10
     /\ cfg[1].graph = GraphScenario3(Scenario3Small)) => Scenario3BeforePulse(cfg[1])

\* scenario 3 from its pulse on, for larger populations and an unseeded
\* generator in any of a few states
InitScenario3 ==
    /\ rng \in 0..MaxPulseEntropy
    /\ \E n \in Scenario3Sizes : Scenario3BeforePulse(Scenario3Args(n, NoSeed))

NextScenario3 == PulseMigration(1) \/ Census(1)

SpecScenario3 == InitScenario3 /\ [][NextScenario3]_vars

\* C22: in scenario 3 (A fixed for allele 1, B fixed for allele 0, no
\* mutation, no selection, a pulse of half of B from A at generation 10) the
\* frequency f of allele 1 that the census of generation 10 records for B
\* has |f - 1/2| <= 1/sqrt(num_migrants), num_migrants = floor(len(B) / 2):
\* num_migrants * (2 * f - 1)^2 <= 4.
C22_PulseGivesHalf ==
    \A i \in SimIds :
        (/\ pc[i] \notin {"absent", "new", "failed"}
         /\ \E n \in Scenario3Sizes \cup {Scenario3Small} :
                cfg[i] = Scenario3Args(n, cfg[i].seed)
         /\ "B" \in DOMAIN history[i]
         /\ Len(history[i]["B"]) >= DefaultHorizon - 10 + 1) =>
            LET f == history[i]["B"][DefaultHorizon - 10 + 1][1]
                num_migrants == cfg[i].graph.demes[2].epochs[1].start_size \div 2
            IN  num_migrants * (2 * f[1] - f[2]) * (2 * f[1] - f[2]) <= 4 * f[2] * f[2]

-----------------------------------------------------------------------------
(* C23 *)

\* the entries of the schedule of simulator i whose start_time truncates
\* to generation g
DueEntries(i, g) ==
    LET entries == cfg[i].config.new_alleles
    IN  {k \in 1..Len(entries) :
            IF entries[k].start_time >= 0
            THEN entries[k].start_time \div TimeDen = g
            ELSE -((-entries[k].start_time) \div TimeDen) = g}

\* the number of copies entry e puts into a population of n individuals
CopiesOf(e, n) ==
    LET freq == IF "initial_frequency" \in e.fields THEN e.initial_frequency
                ELSE <<1, 20>>
        part == IF freq[1] >= 0 THEN (n * freq[1]) \div freq[2]
                ELSE -((n * (-freq[1])) \div freq[2])
    IN  IF part > 1 THEN part ELSE 1

\* C23: the introduction phase of generation t handles the entries whose
\* start_time truncates to t.  An entry whose target is stored and not
\* empty (and is the target of no other entry of the generation) leaves the
\* allele in the active set and writes it over exactly
\* N = max(1, floor(len * initial_frequency)) distinct positions: the length
\* is kept, only positions that now hold the allele have changed, at least
\* N individuals hold it, and exactly N if none did before.  An entry whose
\* target is absent or empty changes neither a population nor the active
\* set.
C23_IntroductionWritesN ==
    [][\A i \in SimIds :
        pc[i] = "new_alleles" =>
            LET entries == cfg[i].config.new_alleles
                due == DueEntries(i, t[i])
                pre == current_populations[i]
                post == current_populations'[i]
                Live(k) == /\ entries[k].population \in DOMAIN pre
                           /\ pre[entries[k].population] # <<>>
            IN  /\ \A k \in due :
                    Live(k) =>
                        LET a == entries[k].allele
                            old == pre[entries[k].population]
                            new == post[entries[k].population]
                            N == CopiesOf(entries[k], Len(old))
                        IN  /\ err'[i] = ""
                            /\ \E j \in 1..Len(alleles'[i]) : alleles'[i][j] = a
                            /\ Len(new) = Len(old)
                            /\ \A q \in 1..Len(old) : new[q] # old[q] => new[q] = a
                            /\ Cardinality({q \in 1..Len(new) : new[q] = a}) >= N
                            /\ (\A q \in 1..Len(old) : old[q] # a) =>
                                   Cardinality({q \in 1..Len(new) : new[q] = a}) = N
                /\ \A name \in DOMAIN pre :
                    (\A k \in due : Live(k) => entries[k].population # name) =>
                        post[name] = pre[name]
                /\ (\A k \in due : ~Live(k)) =>
                        /\ alleles'[i] = alleles[i]
                        /\ rng' = rng
      ]_vars

-----------------------------------------------------------------------------
(* C24 *)

\* floor(size * proportion) for the k-th ancestor of a deme, the proportions
\* being uniform when none are given
PartOf(deme, k) ==
    LET size == deme.epochs[1].start_size
        prop == IF deme.proportions = <<>> THEN <<1, Len(deme.ancestors)>>
                ELSE deme.proportions[k]
    IN  (size * prop[1]) \div prop[2]

\* the individuals of a new population that the parts leave to be drawn
RECURSIVE PartsUpTo(_, _)
PartsUpTo(deme, k) == IF k = 0 THEN 0 ELSE PartOf(deme, k) + PartsUpTo(deme, k - 1)

Shortfall(deme) == deme.epochs[1].start_size - PartsUpTo(deme, Len(deme.ancestors))

\* how many individuals of pop carry an allele that occurs in other
CarriedFrom(pop, other) ==
    Cardinality({q \in 1..Len(pop) : \E j \in 1..Len(other) : other[j] = pop[q]})

\* C24: a population born from a non-empty list of ancestors that are all
\* in the store has exactly `size` individuals and an empty history, and
\* the ancestors keep their collections.  When no ancestor is empty, every
\* allele of the newborn occurs in an ancestor; at least
\* floor(size * proportion) of its individuals carry an allele of each
\* ancestor, and the first ancestor also accounts for the rounding
\* shortfall.
C24_BornFromAncestors ==
    [][\A i \in SimIds :
        pc[i] = "births" =>
            \A k \in 1..Len(cfg[i].graph.demes) :
                LET deme == cfg[i].graph.demes[k]
                    pre == current_populations[i]
                    post == current_populations'[i]
                    anc == deme.ancestors
                IN  (/\ deme.name \in DOMAIN post /\ deme.name \notin DOMAIN pre
                     /\ anc # <<>>
                     /\ \A j \in 1..Len(anc) : anc[j] \in DOMAIN pre) =>
                        LET new == post[deme.name]
                        IN  /\ Len(new) = deme.epochs[1].start_size
                            /\ history'[i][deme.name] = <<>>
                            /\ \A j \in 1..Len(anc) : post[anc[j]] = pre[anc[j]]
                            /\ (\A j \in 1..Len(anc) : pre[anc[j]] # <<>>) =>
                                /\ \A q \in 1..Len(new) :
                                       \E j \in 1..Len(anc) :
                                           \E m \in 1..Len(pre[anc[j]]) :
                                               pre[anc[j]][m] = new[q]
                                /\ \A j \in 1..Len(anc) :
                                       CarriedFrom(new, pre[anc[j]]) >= PartOf(deme, j)
                                /\ CarriedFrom(new, pre[anc[1]]) >=
                                       PartOf(deme, 1) + Shortfall(deme)
      ]_vars

\* C of the merge graph has just been born from A and B, neither empty and
\* B carrying an allele that A lacks: three individuals, one by each part
\* and one more from A
C24_Witness ==
    /\ pc[1] = "new_alleles" /\ t[1] = 2
    /\ cfg[1].graph = GraphMerge
    /\ phases[1] = << "births" >>
    /\ history[1]["C"] = <<>>
    /\ Len(current_populations[1]["C"]) = 3
    /\ current_populations[1]["A"] # <<>>
    /\ current_populations[1]["B"] # <<>>
    /\ CarriedFrom(current_populations[1]["B"], current_populations[1]["A"])
            < Len(current_populations[1]["B"])
    /\ CarriedFrom(current_populations[1]["C"], current_populations[1]["A"]) = 2

-----------------------------------------------------------------------------
(* C25 *)

\* C25: extinction is absorbing.  A stored population that is empty stays
\* in the store and stays empty through every step of the run (births,
\* introduction of alleles, drift, migration, pulses, census), so a
\* population that is empty at the end of a generation is empty at the
\* census of every later generation.
C25_ExtinctionIsAbsorbing ==
    [][\A i \in SimIds : \A name \in DOMAIN current_populations[i] :
        current_populations[i][name] = <<>> =>
            /\ name \in DOMAIN current_populations'[i]
            /\ current_populations'[i][name] = <<>>
      ]_vars

\* generation 10 of the merge graph, after the continuous migration: A has
\* died out in the first generation and been censused empty 42 times, B
\* lives, the graph gives A a positive size and migrants from B to A
C25_Witness ==
    /\ pc[1] = "pulses" /\ t[1] = 10
    /\ cfg[1].graph = GraphMerge
    /\ current_populations[1]["A"] = <<>>
    /\ current_populations[1]["B"] # <<>>
    /\ GraphSize(DemeOf(cfg[1].graph, "A"), 10) > 0
    /\ Len(history[1]["A"]) = 42
    /\ \A k \in 1..42 : \A a \in DOMAIN history[1]["A"][k] :
            history[1]["A"][k][a] = <<0, 1>>
    /\ \E k \in 1..Len(cfg[1].graph.migrations) :
            /\ cfg[1].graph.migrations[k].dest = "A"
            /\ cfg[1].graph.migrations[k].end_time < 10 * TimeDen

-----------------------------------------------------------------------------
(* C26 *)

\* the first generation of a run (the largest, as generations count down)
\* at which the schedule of simulator i introduces allele a
FirstScheduled(i, a) ==
    LET entries == cfg[i].config.new_alleles
        gens == {IF entries[k].start_time >= 0
                 THEN entries[k].start_time \div TimeDen
                 ELSE -((-entries[k].start_time) \div TimeDen) :
                     k \in {j \in 1..Len(entries) : entries[j].allele = a}}
    IN  CHOOSE g \in gens : \A h \in gens : h <= g

\* C26: in the generations of the first run that come before every
\* scheduled introduction of an allele (so before the first one that
\* fires), no individual of a stored population carries the allele and no
\* record has it as a key.
C26_ScheduledAlleleAbsentBeforeIntroduction ==
    \A i \in SimIds :
        (pc[i] \notin {"absent", "new", "failed", "ready"} /\ runs[i] = 1) =>
            \A k \in 1..Len(cfg[i].config.new_alleles) :
                LET a == cfg[i].config.new_alleles[k].allele
                IN  t[i] > FirstScheduled(i, a) =>
                        /\ \A name \in DOMAIN current_populations[i] :
                            \A q \in 1..Len(current_populations[i][name]) :
                                current_populations[i][name][q] # a
                        /\ \A name \in DOMAIN history[i] :
                            \A q \in 1..Len(history[i][name]) :
                                a \notin DOMAIN history[i][name][q]

-----------------------------------------------------------------------------
(* C27 *)

\* C27: the state of a simulator persists across calls of run().  A further
\* run() starts from the store and the histories that the run before left
\* at generation 0, every population of the graph being in the store; it
\* creates no population and removes none; no step of it changes a record
\* that is there, and each census appends one record to every history; so
\* when the r-th run returns, each history holds the b + 1 records of the
\* first run followed by horizon + 1 records for each further run.
C27_StatePersistsAcrossRuns ==
    [][\A i \in SimIds :
        LET horizon == Horizon(cfg[i].graph)
        IN  /\ (pc[i] = "done" /\ pc'[i] = "births") =>
                /\ current_populations'[i] = current_populations[i]
                /\ history'[i] = history[i]
                /\ DOMAIN current_populations[i] = DemeNames(cfg[i].graph)
                /\ t'[i] = horizon
            /\ (runs[i] >= 2 /\ Running(i)) =>
                /\ born'[i] = born[i]
                /\ DOMAIN current_populations'[i] = DOMAIN current_populations[i]
                /\ DOMAIN history'[i] = DOMAIN history[i]
                /\ pc[i] = "births" =>
                    /\ current_populations'[i] = current_populations[i]
                    /\ rng' = rng
                /\ \A name \in DOMAIN history[i] :
                    LET old == history[i][name]
                        new == history'[i][name]
                    IN  IF pc[i] = "census" /\ name \in DOMAIN current_populations[i]
                        THEN /\ Len(new) = Len(old) + 1
                             /\ \A k \in 1..Len(old) : new[k] = old[k]
                        ELSE new = old
            /\ (runs[i] >= 2 /\ pc[i] = "done") =>
                \A name \in DOMAIN history[i] :
                    Len(history[i][name]) =
                        (BirthGeneration(DemeOf(cfg[i].graph, name), horizon) + 1)
                        + (runs[i] - 1) * (horizon + 1)
      ]_vars

\* the second run() of the split graph has returned: 53 + 53 records for
\* the root A, which lives on, and 3 + 53 for B, which the second run has
\* found in the store, emptied in its first generation and not created again
C27_Witness ==
    /\ pc[1] = "done" /\ runs[1] = 2
    /\ cfg[1].graph = GraphSplit
    /\ Len(history[1]["A"]) = 106
    /\ Len(history[1]["B"]) = 56
    /\ current_populations[1]["A"] # <<>>
    /\ current_populations[1]["B"] = <<>>
    /\ born[1] = [name \in {"A", "B"} |-> 1]
    /\ \E a \in DOMAIN history[1]["B"][3] : history[1]["B"][3][a] # <<0, 1>>
    /\ \A k \in 4..56 : \A a \in DOMAIN history[1]["B"][k] :
            history[1]["B"][k][a] = <<0, 1>>

=============================================================================
